---- MODULE Spec2Model ----
(***************************************************************************)
(* Connect four: the Board of crates/game/src/board.rs (put_tile,          *)
(* game_result, game_result_on_change) driven by a caller that replays a   *)
(* fixture move list and then plays arbitrary moves.                       *)
(***************************************************************************)
EXTENDS Integers, FiniteSets, Sequences, TLC

\* The board under test and the record of the last put_tile call on it.
VARIABLES field, target, free, ret, column, team, access, before

boardVars == <<field, target, free, ret, column, team, access, before>>

\* Two Board values in memory: the storage of each, where the copy lives,
\* what the original held when it was copied, and which of the two was
\* written since.
VARIABLES heap, copyAt, snap, touched, moves

copyVars == <<heap, copyAt, snap, touched, moves>>

\* A Game: its board, the method that runs it, the half of the loop body
\* that comes next, what the method produced, the make_move requests so far
\* (team asked, column returned), the board before the last request, and the
\* players: the columns they mean to return and how often they returned
\* another one.
VARIABLES gboard, mode, pc, outcome, requests, gprev, plan, deviations

\* The players of the game (X and O) and the order in which the set of
\* possible moves was iterated in the last make_move.
VARIABLES players, iterated

gameVars ==
  <<gboard, mode, pc, outcome, requests, gprev, plan, deviations,
    players, iterated>>

\* A search of MinimaxPlayer on the board of the game: the player who
\* searches (deepness and heuristic) and what its last make_move did.
VARIABLES searcher, search

searchVars == <<searcher, search>>

\* league_scores: the number of models, the closure of every matchup (where
\* it is, the result of its game, the score it read), the vector in the
\* mutex, the matchup that holds the lock, and the vector returned.
VARIABLES models, tasks, scores, guard, returned

leagueVars == <<models, tasks, scores, guard, returned>>

\* main_evo: the EvolutionTrainer, the models of the last train_step zipped
\* with their scores, and the loop around train_step.
VARIABLES trainer, evaluated, evo

trainVars == <<trainer, evaluated, evo>>

vars == <<boardVars, copyVars, gameVars, searchVars, leagueVars, trainVars>>

\* board.rs:10 and board.rs:12
W == 7
H == 6

\* Number of successful moves the caller plays off its fixture move list.
MaxFree == 1

\* Number of tiles placed on a board and its copy together.
MaxCopyMoves == 3

\* Number of times the players of a game leave their list of columns.
MaxDeviations == 1

\* usize arithmetic wraps modulo 2^UsizeBits (a 16 bit target; every wider
\* target behaves alike, all that matters is that a wrapped value is >= W).
UsizeBits == 16
UsizeRange == 2 ^ UsizeBits

Teams == {"X", "O"}
Cells == 0 .. (W * H - 1)
Columns == 0 .. (W - 1)
Rows == 0 .. (H - 1)

\* Team::other
other(t) == IF t = "X" THEN "O" ELSE "X"

\* Option<GameResult>: None, Some(Draw), Some(Winner(team))
NoResult == [kind |-> "None", team |-> "None"]
Draw == [kind |-> "Draw", team |-> "None"]
Winner(t) == [kind |-> "Winner", team |-> t]

\* Result<(), Error> of put_tile
Ok == [kind |-> "Ok", team |-> "None"]
NoCall == [kind |-> "NoCall", team |-> "None"]
IndexOutOfBounds == [kind |-> "IndexOutOfBounds", team |-> "None"]
FieldFullAtColumn(t) == [kind |-> "FieldFullAtColumn", team |-> t]

\* Board::default: every cell None
EmptyBoard == [i \in Cells |-> "None"]

Min(S) == CHOOSE m \in S : \A n \in S : m <= n

wrapping_sub(a, b) == (a - b) % UsizeRange
wrapping_add(a, b) == (a + b) % UsizeRange

----------------------------------------------------------------------------
\* put_tile addressing the cell as y * W + x, the layout the comment on
\* Board::field warns against.
put_tile_row_major(b, c, t) ==
  IF c >= W
  THEN [field |-> b, ret |-> IndexOutOfBounds, access |-> {}]
  ELSE LET open == {y \in Rows : b[y * W + c] = "None"}
       IN IF open = {}
          THEN [field |-> b, ret |-> FieldFullAtColumn(t),
                access |-> {y * W + c : y \in Rows}]
          ELSE LET y == Min(open)
               IN [field |-> [b EXCEPT ![y * W + c] = t], ret |-> Ok,
                   access |-> {yy * W + c : yy \in 0 .. y}]

\* put_tile that replaces the top tile of a full column.
put_tile_overwrite(b, c, t) ==
  IF c >= W
  THEN [field |-> b, ret |-> IndexOutOfBounds, access |-> {}]
  ELSE LET open == {y \in Rows : b[c * H + y] = "None"}
           y == IF open = {} THEN H - 1 ELSE Min(open)
       IN [field |-> [b EXCEPT ![c * H + y] = t], ret |-> Ok,
           access |-> {c * H + yy : yy \in 0 .. y}]

\* put_tile that ignores a column beyond the board.
put_tile_swallow(b, c, t) ==
  IF c >= W
  THEN [field |-> b, ret |-> Ok, access |-> {}]
  ELSE LET open == {y \in Rows : b[c * H + y] = "None"}
       IN IF open = {}
          THEN [field |-> b, ret |-> FieldFullAtColumn(t),
                access |-> {c * H + y : y \in Rows}]
          ELSE LET y == Min(open)
               IN [field |-> [b EXCEPT ![c * H + y] = t], ret |-> Ok,
                   access |-> {c * H + yy : yy \in 0 .. y}]

\* put_tile that walks the column from the top row down.
put_tile_from_top(b, c, t) ==
  IF c >= W
  THEN [field |-> b, ret |-> IndexOutOfBounds, access |-> {}]
  ELSE LET open == {y \in Rows : b[c * H + y] = "None"}
       IN IF open = {}
          THEN [field |-> b, ret |-> FieldFullAtColumn(t),
                access |-> {c * H + y : y \in Rows}]
          ELSE LET y == CHOOSE m \in open : \A n \in open : n <= m
               IN [field |-> [b EXCEPT ![c * H + y] = t], ret |-> Ok,
                   access |-> {c * H + yy : yy \in y .. (H - 1)}]

\* Board::put_tile: the new board, the returned value and the cells accessed.
put_tile(b, c, t) ==
  IF c >= W
  THEN [field |-> b, ret |-> IndexOutOfBounds, access |-> {}]
  ELSE LET open == {y \in Rows : b[c * H + y] = "None"}
       IN IF open = {}
          THEN [field |-> b, ret |-> FieldFullAtColumn(t),
                access |-> {c * H + y : y \in Rows}]
          ELSE LET y == Min(open)
               IN [field |-> [b EXCEPT ![c * H + y] = t], ret |-> Ok,
                   access |-> {c * H + yy : yy \in 0 .. y}]

----------------------------------------------------------------------------
\* The windows of Board::game_result in the order the four loop nests visit
\* them: start cell (x, y) and the step (dx, dy) to the next cell of the run.
VerticalScan ==
  [i \in 1 .. W * (H - 3) |->
     [x |-> (i - 1) \div (H - 3), y |-> (i - 1) % (H - 3), dx |-> 0, dy |-> 1]]

\* HorizontalScan with the column loop one short (0 .. W - 4): the windows
\* that end in the rightmost column are never visited.
HorizontalScan_short ==
  [i \in 1 .. H * (W - 4) |->
     [x |-> (i - 1) % (W - 4), y |-> (i - 1) \div (W - 4), dx |-> 1, dy |-> 0]]

HorizontalScan ==
  [i \in 1 .. H * (W - 3) |->
     [x |-> (i - 1) % (W - 3), y |-> (i - 1) \div (W - 3), dx |-> 1, dy |-> 0]]

DiagonalUpScan ==
  [i \in 1 .. (W - 3) * (H - 3) |->
     [x |-> (i - 1) \div (H - 3), y |-> (i - 1) % (H - 3), dx |-> 1, dy |-> 1]]

DiagonalDownScan ==
  [i \in 1 .. (W - 3) * (H - 3) |->
     [x |-> 3 + ((i - 1) \div (H - 3)), y |-> (i - 1) % (H - 3),
      dx |-> -1, dy |-> 1]]

Scan == VerticalScan \o HorizontalScan \o DiagonalUpScan \o DiagonalDownScan

\* The "if let Some(team) = field[..] { if field[..] == Some(team) && .. }"
\* test of one window.
FourAt(b, s) ==
  /\ b[s.x * H + s.y] # "None"
  /\ \A k \in 1 .. 3 :
       b[(s.x + k * s.dx) * H + s.y + k * s.dy] = b[s.x * H + s.y]

\* game_result that reports a running game only while every cell is None
\* (all in the place of any).
game_result_all(b) ==
  LET hits == {i \in 1 .. Len(Scan) : FourAt(b, Scan[i])}
  IN IF hits # {}
     THEN Winner(b[Scan[Min(hits)].x * H + Scan[Min(hits)].y])
     ELSE IF \A i \in Cells : b[i] = "None" THEN NoResult ELSE Draw

\* Board::game_result: the team of the first window of the scan that holds
\* four equal tiles, else Draw on a board without a None cell, else None.
game_result(b) ==
  LET hits == {i \in 1 .. Len(Scan) : FourAt(b, Scan[i])}
  IN IF hits # {}
     THEN Winner(b[Scan[Min(hits)].x * H + Scan[Min(hits)].y])
     ELSE IF \E i \in Cells : b[i] = "None" THEN NoResult ELSE Draw

\* Board::field_get_safe
field_get_safe(b, x, y) ==
  IF x >= W \/ y >= H THEN "None" ELSE b[x * H + y]

\* Row of the tile game_result_on_change anchors at: the loop starts at
\* H - 1 and steps down (wrapping) until it meets a tile, at most H times.
TileRow(b, x) ==
  LET occ == {y \in Rows : b[x * H + y] # "None"}
  IN IF occ = {} THEN wrapping_sub(H - 1, H)
     ELSE CHOOSE y \in occ : \A yy \in occ : yy <= y

\* WinInX without the window of which the anchor is the third cell.
WinInX_three(b, x, y, t) ==
  LET is(xx, yy) == field_get_safe(b, xx, yy) = t
      xs(k) == wrapping_sub(x, k)
      xa(k) == wrapping_add(x, k)
  IN \/ is(xs(3), y) /\ is(xs(2), y) /\ is(xs(1), y)
     \/ is(xs(1), y) /\ is(xa(1), y) /\ is(xa(2), y)
     \/ is(xa(1), y) /\ is(xa(2), y) /\ is(xa(3), y)

\* The "win in x direction" test of game_result_on_change: the four windows
\* of the row through the anchor (x, y) of team t.
WinInX(b, x, y, t) ==
  LET is(xx, yy) == field_get_safe(b, xx, yy) = t
      xs(k) == wrapping_sub(x, k)
      xa(k) == wrapping_add(x, k)
  IN \/ is(xs(3), y) /\ is(xs(2), y) /\ is(xs(1), y)
     \/ is(xs(2), y) /\ is(xs(1), y) /\ is(xa(1), y)
     \/ is(xs(1), y) /\ is(xa(1), y) /\ is(xa(2), y)
     \/ is(xa(1), y) /\ is(xa(2), y) /\ is(xa(3), y)

\* The "win in y direction" test: the three cells below the anchor.
WinInY(b, x, y, t) ==
  LET is(xx, yy) == field_get_safe(b, xx, yy) = t
      ys(k) == wrapping_sub(y, k)
  IN is(x, ys(3)) /\ is(x, ys(2)) /\ is(x, ys(1))

\* The "win in diagonal up direction" test.
WinInDiagonalUp(b, x, y, t) ==
  LET is(xx, yy) == field_get_safe(b, xx, yy) = t
      xs(k) == wrapping_sub(x, k)
      xa(k) == wrapping_add(x, k)
      ys(k) == wrapping_sub(y, k)
      ya(k) == wrapping_add(y, k)
  IN \/ is(xs(3), ys(3)) /\ is(xs(2), ys(2)) /\ is(xs(1), ys(1))
     \/ is(xs(2), ys(2)) /\ is(xs(1), ys(1)) /\ is(xa(1), ya(1))
     \/ is(xs(1), ys(1)) /\ is(xa(1), ya(1)) /\ is(xa(2), ya(2))
     \/ is(xa(1), ya(1)) /\ is(xa(2), ya(2)) /\ is(xa(3), ya(3))

\* WinInDiagonalDown with the sign of the row offset of its third window
\* copied from the diagonal up test.
WinInDiagonalDown_copied(b, x, y, t) ==
  LET is(xx, yy) == field_get_safe(b, xx, yy) = t
      xs(k) == wrapping_sub(x, k)
      xa(k) == wrapping_add(x, k)
      ys(k) == wrapping_sub(y, k)
      ya(k) == wrapping_add(y, k)
  IN \/ is(xs(3), ya(3)) /\ is(xs(2), ya(2)) /\ is(xs(1), ya(1))
     \/ is(xs(2), ya(2)) /\ is(xs(1), ya(1)) /\ is(xa(1), ys(1))
     \/ is(xs(1), ys(1)) /\ is(xa(1), ya(1)) /\ is(xa(2), ya(2))
     \/ is(xa(1), ys(1)) /\ is(xa(2), ys(2)) /\ is(xa(3), ys(3))

\* The "win in diagonal down direction" test.
WinInDiagonalDown(b, x, y, t) ==
  LET is(xx, yy) == field_get_safe(b, xx, yy) = t
      xs(k) == wrapping_sub(x, k)
      xa(k) == wrapping_add(x, k)
      ys(k) == wrapping_sub(y, k)
      ya(k) == wrapping_add(y, k)
  IN \/ is(xs(3), ya(3)) /\ is(xs(2), ya(2)) /\ is(xs(1), ya(1))
     \/ is(xs(2), ya(2)) /\ is(xs(1), ya(1)) /\ is(xa(1), ys(1))
     \/ is(xs(1), ya(1)) /\ is(xa(1), ys(1)) /\ is(xa(2), ys(2))
     \/ is(xa(1), ys(1)) /\ is(xa(2), ys(2)) /\ is(xa(3), ys(3))

\* game_result_on_change that falls back to the full scan when the column
\* holds no tile.
game_result_on_change_fallback(b, col) ==
  LET x == col
      y == TileRow(b, x)
      t == field_get_safe(b, x, y)
  IN IF t = "None" THEN game_result(b)
     ELSE IF \/ WinInX(b, x, y, t)
             \/ WinInY(b, x, y, t)
             \/ WinInDiagonalUp(b, x, y, t)
             \/ WinInDiagonalDown(b, x, y, t)
          THEN Winner(t)
          ELSE IF \E i \in Cells : b[i] = "None" THEN NoResult ELSE Draw

\* game_result_on_change that looks for a None cell in its own column only.
game_result_on_change_column(b, col) ==
  LET x == col
      y == TileRow(b, x)
      t == field_get_safe(b, x, y)
  IN IF t = "None" THEN NoResult
     ELSE IF \/ WinInX(b, x, y, t)
             \/ WinInY(b, x, y, t)
             \/ WinInDiagonalUp(b, x, y, t)
             \/ WinInDiagonalDown(b, x, y, t)
          THEN Winner(t)
          ELSE IF \E yy \in Rows : b[x * H + yy] = "None"
               THEN NoResult ELSE Draw

\* Board::game_result_on_change
game_result_on_change(b, col) ==
  LET x == col
      y == TileRow(b, x)
      t == field_get_safe(b, x, y)
  IN IF t = "None" THEN NoResult
     ELSE IF \/ WinInX(b, x, y, t)
             \/ WinInY(b, x, y, t)
             \/ WinInDiagonalUp(b, x, y, t)
             \/ WinInDiagonalDown(b, x, y, t)
          THEN Winner(t)
          ELSE IF \E i \in Cells : b[i] = "None" THEN NoResult ELSE Draw

\* The loop of game_result_on_change run once more than the height.
ScanReads_once_more(b, x) ==
  LET occ == {y \in Rows : b[x * H + y] # "None"}
  IN IF occ = {}
     THEN {x * H + y : y \in Rows} \cup {x * H + wrapping_sub(0, 1)}
     ELSE {x * H + y : y \in {yy \in Rows : \A o \in occ : o <= yy}}

\* The indices self.field[x * H + y] of the loop of game_result_on_change
\* (lines 153-160): from the top row down to the first tile, at most H of
\* them.
ScanReads(b, x) ==
  LET occ == {y \in Rows : b[x * H + y] # "None"}
  IN {x * H + y : y \in {yy \in Rows : \A o \in occ : o <= yy}}

\* field_get_safe that does not compare the row.
FieldGetSafeReads_column_only(x, y) ==
  IF x >= W THEN {} ELSE {x * H + y}

\* The index field_get_safe reads for (x, y), if any.
FieldGetSafeReads(x, y) ==
  IF x >= W \/ y >= H THEN {} ELSE {x * H + y}

\* The coordinates game_result_on_change hands to field_get_safe around
\* the anchor (x, y), in the four tests.
NeighbourCoordinates(x, y) ==
  UNION {{<<wrapping_sub(x, k), y>>, <<wrapping_add(x, k), y>>,
          <<x, wrapping_sub(y, k)>>,
          <<wrapping_sub(x, k), wrapping_sub(y, k)>>,
          <<wrapping_add(x, k), wrapping_add(y, k)>>,
          <<wrapping_sub(x, k), wrapping_add(y, k)>>,
          <<wrapping_add(x, k), wrapping_sub(y, k)>>} : k \in 1 .. 3}

\* Every index of self.field that game_result_on_change(col) may read.
OnChangeReads(b, col) ==
  LET x == col
      y == TileRow(b, x)
  IN ScanReads(b, x) \cup FieldGetSafeReads(x, y)
     \cup (IF field_get_safe(b, x, y) = "None"
           THEN {}
           ELSE UNION {FieldGetSafeReads(p[1], p[2]) : p \in NeighbourCoordinates(x, y)})

\* whos_turn with the parity test inverted.
whos_turn_odd(b) ==
  IF Cardinality({i \in Cells : b[i] # "None"}) % 2 = 1 THEN "X" ELSE "O"

\* Board::whos_turn
whos_turn(b) ==
  IF Cardinality({i \in Cells : b[i] # "None"}) % 2 = 0 THEN "X" ELSE "O"

\* possible_moves that tests the bottom row of each column (x * H) in the
\* place of its top row.
possible_moves_bottom(b) == {x \in Columns : b[x * H] = "None"}

\* Board::possible_moves
possible_moves(b) == {x \in Columns : b[x * H + H - 1] = "None"}

----------------------------------------------------------------------------
\* The callers of the board: the move lists of the tests of board.rs.

\* Number of tiles in column c.
\* f64 values in thousandths: 0.333, 1.0, and f64::MAX and f64::MIN as
\* values above and below every sum the board can produce.
Third == 333
One == 1000
F64Max == 2 ^ 30
F64Min == 0 - F64Max

\* The eight displacements of heuristic_1, in the order of the source.
Displacements ==
  <<<<1, 0>>, <<1, 1>>, <<0, 1>>, <<-1, 1>>, <<-1, 0>>, <<-1, -1>>, <<0, -1>>, <<1, -1>>>>

\* self.field.get(((x + dx) * H + (y + dy)) as usize) for displacement d of
\* a tile of team t at (x, y): a negative index casts to a usize past the
\* field, so get gives nothing, and so does an index past the end; the row
\* is not compared with the height.
NeighbourValue(b, x, y, d, t) ==
  LET i == (x + d[1]) * H + (y + d[2])
  IN IF i < 0 \/ i >= W * H
     THEN 0
     ELSE IF b[i] = "None" THEN Third ELSE IF b[i] = t THEN One ELSE 0 - One

RECURSIVE SurroundingFrom(_, _, _, _)
SurroundingFrom(b, x, y, k) ==
  IF k > Len(Displacements)
  THEN 0
  ELSE NeighbourValue(b, x, y, Displacements[k], b[x * H + y])
       + SurroundingFrom(b, x, y, k + 1)

\* NeighbourhoodFrom that leaves the tiles of the other team out.
RECURSIVE NeighbourhoodFrom_own(_, _, _)
NeighbourhoodFrom_own(b, me, i) ==
  IF i >= W * H
  THEN 0
  ELSE (IF b[i] = me THEN SurroundingFrom(b, i \div H, i % H, 1) ELSE 0)
       + NeighbourhoodFrom_own(b, me, i + 1)

\* The loop over x and y of heuristic_1, cell i = x * H + y onwards.
RECURSIVE NeighbourhoodFrom(_, _, _)
NeighbourhoodFrom(b, me, i) ==
  IF i >= W * H
  THEN 0
  ELSE (IF b[i] = "None"
        THEN 0
        ELSE IF b[i] = me
             THEN SurroundingFrom(b, i \div H, i % H, 1)
             ELSE 0 - SurroundingFrom(b, i \div H, i % H, 1))
       + NeighbourhoodFrom(b, me, i + 1)

NeighbourhoodSum(b, me) == NeighbourhoodFrom(b, me, 0)

\* heuristic_1 without the arm for a draw.
heuristic_1_no_draw(b, me) ==
  LET r == game_result(b)
  IN IF r.kind = "Winner"
     THEN IF r.team = me THEN F64Max ELSE F64Min
     ELSE NeighbourhoodSum(b, me)

heuristic_1(b, me) ==
  LET r == game_result(b)
  IN IF r = Draw
     THEN 0
     ELSE IF r.kind = "Winner"
          THEN IF r.team = me THEN F64Max ELSE F64Min
          ELSE NeighbourhoodSum(b, me)

\* TerminalValue were a win of the opponent worth a draw.
TerminalValue_no_loss(r, me) ==
  IF r = Draw THEN 0 ELSE IF r.team = me THEN F64Max ELSE 0

\* The value a decided game has for team me, in all three minimax methods.
TerminalValue(r, me) ==
  IF r = Draw THEN 0 ELSE IF r.team = me THEN F64Max ELSE F64Min

MaxOf(S) == CHOOSE m \in S : \A n \in S : n <= m

\* MinimaxPlayer of the players crate, built by new_1: the heuristic is
\* heuristic_1. dp is self.deepness.
RECURSIVE max_value(_, _, _, _)
RECURSIVE min_value(_, _, _, _)

\* The closure of max_value for one column.
MaxClosure(dp, b, me, cur, c) ==
  LET test_board == put_tile(b, c, me).field
      r == game_result_on_change(test_board, c)
  IN IF r # NoResult THEN TerminalValue(r, me) ELSE min_value(dp, test_board, me, cur + 1)

\* The closure of min_value for one column.
MinClosure(dp, b, me, cur, c) ==
  LET test_board == put_tile(b, c, other(me)).field
      r == game_result_on_change(test_board, c)
  IN IF r # NoResult THEN TerminalValue(r, me) ELSE max_value(dp, test_board, me, cur + 1)

max_value(dp, b, me, cur) ==
  IF cur + 1 < dp
  THEN MaxOf({MaxClosure(dp, b, me, cur, c) : c \in possible_moves(b)})
  ELSE heuristic_1(b, me)

min_value(dp, b, me, cur) ==
  IF cur + 1 < dp
  THEN Min({MinClosure(dp, b, me, cur, c) : c \in possible_moves(b)})
  ELSE heuristic_1(b, me)

\* The closure of make_move for one column: the value paired with it.
MoveValue(dp, b, me, c) ==
  LET test_board == put_tile(b, c, me).field
      r == game_result_on_change(test_board, c)
  IN IF r # NoResult THEN TerminalValue(r, me) ELSE min_value(dp, test_board, me, 1)

\* The values make_move pairs with the columns.
MoveValues(dp, b, me) ==
  [c \in possible_moves(b) |-> MoveValue(dp, b, me, c)]

\* Iterator::max_by over the values v of a sequence of columns: the last
\* element that no element exceeds.
max_by(order, v) ==
  LET best == {i \in 1 .. Len(order) :
                 \A j \in 1 .. Len(order) : v[order[j]] <= v[order[i]]}
  IN order[MaxOf(best)]

\* Iterator::min_by likewise: the first element that exceeds no element.
min_by(order, v) ==
  LET best == {i \in 1 .. Len(order) :
                 \A j \in 1 .. Len(order) : v[order[i]] <= v[order[j]]}
  IN order[Min(best)]

\* make_move that takes the smallest value.
make_move_min(dp, b, me, order) == min_by(order, MoveValues(dp, b, me))

\* make_move that keeps the first of several greatest values.
make_move_first(dp, b, me, order) ==
  LET v == MoveValues(dp, b, me)
      best == {i \in 1 .. Len(order) :
                 \A j \in 1 .. Len(order) : v[order[j]] <= v[order[i]]}
  IN order[Min(best)]

\* MinimaxPlayer::make_move; order is the order in which the HashSet of
\* possible_moves() hands out its columns.
make_move(dp, b, me, order) == max_by(order, MoveValues(dp, b, me))

\* MinimaxPlayer of the connect-four crate: the decided game is looked for
\* with game_result() on entry of max_value and min_value, and make_move
\* does not look for it.
RECURSIVE cli_max_value(_, _, _, _)
RECURSIVE cli_min_value(_, _, _, _)

cli_max_value(dp, b, me, cur) ==
  IF game_result(b) # NoResult
  THEN TerminalValue(game_result(b), me)
  ELSE IF cur + 1 < dp
       THEN MaxOf({cli_min_value(dp, put_tile(b, c, me).field, me, cur + 1) :
                     c \in possible_moves(b)})
       ELSE heuristic_1(b, me)

\* min_value that does not look for a decided game on entry.
cli_min_value_unchecked(dp, b, me, cur) ==
  IF cur + 1 < dp
  THEN Min({cli_max_value(dp, put_tile(b, c, other(me)).field, me, cur + 1) :
              c \in possible_moves(b)})
  ELSE heuristic_1(b, me)

cli_min_value(dp, b, me, cur) ==
  IF game_result(b) # NoResult
  THEN TerminalValue(game_result(b), me)
  ELSE IF cur + 1 < dp
       THEN Min({cli_max_value(dp, put_tile(b, c, other(me)).field, me, cur + 1) :
                   c \in possible_moves(b)})
       ELSE heuristic_1(b, me)

CliMoveValue(dp, b, me, c) == cli_min_value(dp, put_tile(b, c, me).field, me, 1)

CliMoveValues(dp, b, me) ==
  [c \in possible_moves(b) |-> CliMoveValue(dp, b, me, c)]

cli_make_move(dp, b, me, order) == max_by(order, CliMoveValues(dp, b, me))

\* The orders in which a HashSet of columns is iterated that the model
\* tries, as orders of all columns.
Ascending == <<0, 1, 2, 3, 4, 5, 6>>
Descending == <<6, 5, 4, 3, 2, 1, 0>>
ColumnOrders == {Ascending, Descending}

\* possible_moves().into_iter() when the set iterates in the order p.
IterationOrder(b, p) ==
  LET possible(c) == c \in possible_moves(b) IN SelectSeq(p, possible)

\* RandomPlayer::make_move: choose(&mut rng) takes one element of the
\* iteration; rng is what the generator yields.
random_make_move(order, rng) == order[(rng % Len(order)) + 1]

\* ModelPlayer that returns what the network predicts.
model_make_move_unchecked(b, predicted, order, rng) == predicted

\* ModelPlayer::make_move: predicted is the argmax over the 7 classes.
model_make_move(b, predicted, order, rng) ==
  IF predicted \in possible_moves(b)
  THEN predicted
  ELSE random_make_move(order, rng)

\* IoPlayer::make_move: inputs are the numbers typed; the first one that
\* is a possible move ends the loop.
io_make_move(b, inputs) ==
  inputs[Min({i \in 1 .. Len(inputs) : inputs[i] \in possible_moves(b)})]

----------------------------------------------------------------------------
\* The search of MinimaxPlayer step by step, with any heuristic: what it
\* visits, in which order, and where it panics.

\* Not-a-number: a value of its own, which partial_cmp compares with nothing.
NaN == F64Max + 1

\* The heuristics tried: heuristic_1, one that is never a number, and one
\* that is not a number on boards with an odd number of tiles in the
\* middle column.
Heuristics == {"heuristic_1", "not_a_number", "sometimes_a_number"}

\* (self.heuristic)(board, me)
Heuristic(hf, b, me) ==
  IF hf = "heuristic_1" THEN heuristic_1(b, me)
  ELSE IF hf = "not_a_number" THEN NaN
  ELSE IF Cardinality({y \in Rows : b[3 * H + y] # "None"}) % 2 = 1 THEN NaN
  ELSE heuristic_1(b, me)

\* The panics of the search, by the text of their expect.
NoPanic == ""
ImpossibleMove == "Possible move was in fact impossible"
ComparisonFailed == "Heuristic value comparison failed"
NoPossibleMoves == "No possible moves"

\* What a part of the search gives: its value, the column that goes with
\* it (make_move), the panic that ended it, the children it simulated in
\* the order of their return, and the board the caller passed after it ran.
Found(v, c, p, vis, b) ==
  [value |-> v, column |-> c, panic |-> p, visited |-> vis, board |-> b]

\* A simulated child: the board it was copied from, the board with the new
\* tile, the number of tiles placed on the path, what happened to it
\* ("terminal": valued by game_result_on_change, "expanded": its moves were
\* tried, "heuristic": valued by the heuristic), and its value (what was
\* kept when a panic ended it).
Child(parent, b, depth, how, v) ==
  [parent |-> parent, board |-> b, depth |-> depth, how |-> how, value |-> v]

\* BoardAfterChild were test_board the board itself.
BoardAfterChild_shared(b, test_board) == test_board

\* The board behind `board` after the closure placed its tile: the tile
\* went to test_board, a copy (let mut test_board = *board).
BoardAfterChild(b, test_board) == b

RECURSIVE Evaluate(_, _, _, _, _)

\* The last line of the closure: min_value (max_value in min_value) of the
\* board with the new tile, one level deeper.
Below(cfg, b, me, cur, maximise, c, put) ==
  LET how == IF cur + 2 < cfg.deepness THEN "expanded" ELSE "heuristic"
  IN CHOOSE found \in
       {Found(sub.value, c, sub.panic,
              Append(sub.visited, Child(b, put.field, cur + 1, how, sub.value)),
              BoardAfterChild(b, put.field)) :
          sub \in {Evaluate(cfg, put.field, me, cur + 1, ~maximise)}} : TRUE

\* Placed that never asks game_result_on_change.
Placed_unchecked(cfg, b, me, cur, maximise, c, put) ==
  IF put.ret # Ok
  THEN Found(0, c, ImpossibleMove, << >>, b)
  ELSE Below(cfg, b, me, cur, maximise, c, put)

\* Placed that takes only a Winner for a result.
Placed_winner_only(cfg, b, me, cur, maximise, c, put) ==
  LET r == game_result_on_change(put.field, c)
      v == TerminalValue(r, me)
  IN IF put.ret # Ok
     THEN Found(0, c, ImpossibleMove, << >>, b)
     ELSE IF r # NoResult /\ r # Draw
          THEN Found(v, c, NoPanic,
                     <<Child(b, put.field, cur + 1, "terminal", v)>>,
                     BoardAfterChild(b, put.field))
          ELSE Below(cfg, b, me, cur, maximise, c, put)

\* The closure after its put_tile gave put: the expect, then the match on
\* game_result_on_change, then the level below.
Placed(cfg, b, me, cur, maximise, c, put) ==
  LET r == game_result_on_change(put.field, c)
      v == TerminalValue(r, me)
  IN IF put.ret # Ok
     THEN Found(0, c, ImpossibleMove, << >>, b)
     ELSE IF r # NoResult
          THEN Found(v, c, NoPanic,
                     <<Child(b, put.field, cur + 1, "terminal", v)>>,
                     BoardAfterChild(b, put.field))
          ELSE Below(cfg, b, me, cur, maximise, c, put)

\* The closure of max_value (maximise), min_value or make_move for column
\* c of the node b at depth cur.
Closure(cfg, b, me, cur, maximise, c) ==
  CHOOSE found \in
    {Placed(cfg, b, me, cur, maximise, c, put) :
       put \in {put_tile(b, c, IF maximise THEN me ELSE other(me))}} : TRUE

\* partial_cmp that orders not-a-number above every number.
partial_cmp_total(x, y) ==
  IF x > y THEN "Greater" ELSE IF x < y THEN "Less" ELSE "Equal"

\* f64::partial_cmp: None when one of the two is not a number.
partial_cmp(x, y) ==
  IF x = NaN \/ y = NaN THEN "None"
  ELSE IF x > y THEN "Greater" ELSE IF x < y THEN "Less" ELSE "Equal"

\* max_by and min_by as the reduce they are, o the ordering of the element
\* kept so far against the next: max_by keeps it when it is greater,
\* min_by unless it is greater.
Keeps(maximise, o) == IF maximise THEN o = "Greater" ELSE o # "Greater"

\* One step of the reduce: x is what was kept of the elements before (its
\* column is W while there was none), y what the closure gave next; expect
\* panics when partial_cmp is None.
Compared(maximise, x, y) ==
  LET seen == x.visited \o y.visited
      o == partial_cmp(x.value, y.value)
  IN IF y.panic # NoPanic
     THEN Found(x.value, x.column, y.panic, seen, y.board)
     ELSE IF x.column = W
          THEN Found(y.value, y.column, NoPanic, seen, y.board)
          ELSE IF o = "None"
               THEN Found(x.value, x.column, ComparisonFailed, seen, y.board)
               ELSE IF Keeps(maximise, o)
                    THEN Found(x.value, x.column, NoPanic, seen, y.board)
                    ELSE Found(y.value, y.column, NoPanic, seen, y.board)

\* The iterator yields column c after x was kept: a panic before ended the
\* iteration, otherwise the closure runs on the board behind `board`.
Yielded(cfg, me, cur, maximise, c, x) ==
  IF x.panic # NoPanic THEN x
  ELSE CHOOSE found \in
         {Compared(maximise, x, y) :
            y \in {Closure(cfg, x.board, me, cur, maximise, c)}} : TRUE

\* What is kept after the first i columns of order.
RECURSIVE Reduce(_, _, _, _, _, _, _)
Reduce(cfg, b, me, cur, maximise, order, i) ==
  IF i = 0
  THEN Found(0, W, NoPanic, << >>, b)
  ELSE CHOOSE found \in
         {Yielded(cfg, me, cur, maximise, order[i], x) :
            x \in {Reduce(cfg, b, me, cur, maximise, order, i - 1)}} : TRUE

\* The iteration of max_value (maximise), min_value or make_move over the
\* columns of order, with its expect: nothing iterated is a panic.
Iterate(cfg, b, me, cur, maximise, order) ==
  IF order = << >>
  THEN Found(0, W, NoPossibleMoves, << >>, b)
  ELSE Reduce(cfg, b, me, cur, maximise, order, Len(order))

\* Evaluate that recurses one level further.
Evaluate_deeper(cfg, b, me, cur, maximise) ==
  IF cur < cfg.deepness
  THEN Iterate(cfg, b, me, cur, maximise, IterationOrder(b, Ascending))
  ELSE Found(Heuristic(cfg.heuristic, b, me), W, NoPanic, << >>, b)

\* max_value (maximise) and min_value at depth cur; below the root the set
\* of possible moves iterates from the left.
Evaluate(cfg, b, me, cur, maximise) ==
  IF cur + 1 < cfg.deepness
  THEN Iterate(cfg, b, me, cur, maximise, IterationOrder(b, Ascending))
  ELSE Found(Heuristic(cfg.heuristic, b, me), W, NoPanic, << >>, b)

\* MinimaxPlayer::make_move with all it does: cfg is the player (deepness
\* and heuristic), order the iteration of possible_moves().
Search(cfg, b, me, order) == Iterate(cfg, b, me, 0, TRUE, order)

Height(b, c) == Cardinality({y \in Rows : b[c * H + y] # "None"})

\* The full board of tests::state_check: columns alternate upwards, columns
\* 1 and 5 start with O, the others with X.
DrawFixture ==
  [i \in Cells |->
     LET first == IF (i \div H) \in {1, 5} THEN "O" ELSE "X"
     IN IF (i % H) % 2 = 0 THEN first ELSE other(first)]

\* A board given column by column, each column bottom up.
ColumnsBoard(cols) ==
  [i \in Cells |->
     IF (i \div H) + 1 <= Len(cols) /\ (i % H) + 1 <= Len(cols[(i \div H) + 1])
     THEN cols[(i \div H) + 1][(i % H) + 1]
     ELSE "None"]

\* The boards of tests::state_check and tests::state_check_on_change: four
\* in the bottom row, four in column 3, and the two staircases.
HorizontalFixture == ColumnsBoard(<< <<"X">>, <<"X">>, <<"X">>, <<"X">> >>)

VerticalFixture ==
  ColumnsBoard(<< << >>, << >>, << >>, <<"X", "X", "X", "X">> >>)

StairUpFixture ==
  ColumnsBoard(<< <<"X">>, <<"O", "X">>, <<"O", "O", "X">>,
                  <<"O", "O", "O", "X">> >>)

StairDownFixture ==
  ColumnsBoard(<< <<"O", "O", "O", "X">>, <<"O", "O", "X">>, <<"O", "X">>,
                  <<"X">> >>)

\* The board of tests::check_state_example_1.
Example1Fixture ==
  ColumnsBoard(<< <<"O", "O", "X", "O", "X", "O">>,
                  <<"X", "O", "X">>,
                  <<"O", "X", "O", "X", "X", "X">>,
                  <<"X", "X", "O", "X", "O", "X">>,
                  << >>,
                  <<"O", "X", "X", "O", "O", "X">>,
                  <<"O", "O", "X", "O", "X", "O">> >>)

\* The same tiles with the two teams exchanged.
SwapTeams(b) == [i \in Cells |-> IF b[i] = "None" THEN "None" ELSE other(b[i])]

\* The cells of the window s.
LineCells(s) == {(s.x + k * s.dx) * H + s.y + k * s.dy : k \in 0 .. 3}

\* Every window of four cells that lies on the board: its first cell and
\* the step to the next one (up, right, up right, up left).
Windows ==
  {s \in [x : Columns, y : Rows, dx : {-1, 0, 1}, dy : {0, 1}] :
     /\ <<s.dx, s.dy>> \in {<<0, 1>>, <<1, 0>>, <<1, 1>>, <<-1, 1>>}
     /\ s.x + 3 * s.dx \in Columns
     /\ s.y + 3 * s.dy \in Rows}

\* A staircase board as in tests::state_check: team t on the four cells of
\* window s, every cell below them filled, nothing else.
LineFixture(s, t) ==
  [i \in Cells |->
     IF i \in LineCells(s) THEN t
     ELSE IF \E j \in LineCells(s) : j \div H = i \div H /\ i < j
          THEN DrawFixture[i]
          ELSE "None"]

\* A move list: the board it builds, column by column from the left, the
\* column it completes last, and whether the caller may leave the list for
\* moves of its own (the lists of the tests) or not (the staircases built
\* for every window of the board, completed at each of their columns).
TestTargets ==
  {[board |-> b, last |-> 3, tests |-> TRUE] :
     b \in {HorizontalFixture, VerticalFixture, StairUpFixture,
            StairDownFixture}}
  \cup {[board |-> DrawFixture, last |-> W - 1, tests |-> TRUE],
        [board |-> Example1Fixture, last |-> W - 1, tests |-> TRUE]}

LineTargets ==
  UNION {{[board |-> LineFixture(s, t), last |-> j \div H,
           tests |-> FALSE] : j \in LineCells(s)} :
         s \in Windows, t \in Teams}

DrawTargets ==
  {[board |-> b, last |-> c, tests |-> FALSE] :
     b \in {DrawFixture, SwapTeams(DrawFixture)}, c \in Columns}

Targets == TestTargets \cup LineTargets \cup DrawTargets

\* The column of the next move of the move list.
ScriptColumn(b, tg) ==
  LET pending == {c \in Columns : Height(b, c) < Height(tg.board, c)}
  IN IF pending \ {tg.last} # {} THEN Min(pending \ {tg.last}) ELSE tg.last

----------------------------------------------------------------------------
\* The parts of the state a specification does not use stay as they are
\* here.
CopyIdle ==
  /\ heap = <<EmptyBoard, EmptyBoard>>
  /\ copyAt = 0
  /\ snap = EmptyBoard
  /\ touched = {}
  /\ moves = 0

\* What Game::run and Game::run_error_loss produce: nothing yet, Ok(result)
\* or a plain result, Err(error), or a panic.
Running == [kind |-> "Running", value |-> NoResult]
Returned(r) == [kind |-> "Returned", value |-> r]
Failed(e) == [kind |-> "Err", value |-> e]
Panicked(e) == [kind |-> "Panic", value |-> e]

\* A player: a &dyn Player of which nothing is known, or one of the
\* implementations, MinimaxPlayer with its deepness.
PlayerOf(i, d) == [impl |-> i, deepness |-> d]
AnyPlayer == PlayerOf("Any", 0)
RandomPlayer == PlayerOf("Random", 0)
ModelPlayer == PlayerOf("Model", 0)
IoPlayer == PlayerOf("Io", 0)
MinimaxPlayer(d) == PlayerOf("Minimax", d)
CliMinimaxPlayer(d) == PlayerOf("CliMinimax", d)

\* No search was made.
NoSearch == [root |-> EmptyBoard, me |-> "None", order |-> << >>,
             found |-> Found(0, W, NoPanic, << >>, EmptyBoard)]

Searcher(d, hf) == [deepness |-> d, heuristic |-> hf]

\* No matchup holds the lock.
NoGuard == << >>

\* into_inner was not reached.
NotReturned == <<"running">>

LeagueIdle ==
  /\ models = 0
  /\ tasks = << >>
  /\ scores = << >>
  /\ guard = NoGuard
  /\ returned = NotReturned

\* An EvolutionTrainer as the builder makes it.
Trainer(p, lo, hi) ==
  [population |-> p, population_min |-> lo, population_max |-> hi]

\* main_evo in round i of its loop: about to call train_step, or about to
\* read population()[0] (which gave first the last time), or ended by the
\* panic p.
Evo(a, i, first, p) == [at |-> a, i |-> i, first |-> first, panic |-> p]

\* population()[0] was not read.
NoModel == << >>

TrainIdle ==
  /\ trainer = Trainer(<< >>, 0, 0)
  /\ evaluated = << >>
  /\ evo = Evo("done", 0, NoModel, NoPanic)

SearchIdle ==
  /\ searcher = Searcher(1, "heuristic_1")
  /\ search = NoSearch

GameIdle ==
  /\ gboard = EmptyBoard
  /\ mode = "run"
  /\ pc = "done"
  /\ outcome = Running
  /\ requests = << >>
  /\ gprev = EmptyBoard
  /\ plan = << >>
  /\ deviations = 0
  /\ players = [t \in Teams |-> AnyPlayer]
  /\ iterated = << >>

Init ==
  /\ CopyIdle
  /\ SearchIdle
  /\ LeagueIdle
  /\ TrainIdle
  /\ GameIdle
  /\ field = EmptyBoard
  /\ target \in Targets
  /\ free = 0
  /\ ret = NoCall
  /\ column = 0
  /\ team = "X"
  /\ access = {}
  /\ before = EmptyBoard

\* One put_tile call of a caller.
Call(c, t) ==
  LET r == put_tile(field, c, t)
  IN /\ field' = r.field
     /\ ret' = r.ret
     /\ access' = r.access
     /\ column' = c
     /\ team' = t
     /\ before' = field

\* The next move of the move list.
ScriptMove ==
  /\ free = 0
  /\ \E c \in Columns : Height(field, c) < Height(target.board, c)
  /\ LET c == ScriptColumn(field, target)
     IN Call(c, target.board[c * H + Height(field, c)])
  /\ UNCHANGED <<target, free, copyVars, gameVars, searchVars, leagueVars, trainVars>>

\* The columns a caller passes: those of the board, the first one beyond
\* it and the largest usize.
CallColumns == Columns \cup {W, UsizeRange - 1}

\* Any other move: any team, any column.
FreeMove(c, t) ==
  /\ put_tile(field, c, t).ret = Ok => target.tests /\ free < MaxFree
  /\ Call(c, t)
  /\ free' = IF put_tile(field, c, t).ret = Ok THEN free + 1 ELSE free
  /\ UNCHANGED <<target, copyVars, gameVars, searchVars, leagueVars, trainVars>>

Next ==
  \/ ScriptMove
  \/ \E c \in CallColumns, t \in Teams : FreeMove(c, t)

Spec == Init /\ [][Next]_vars

----------------------------------------------------------------------------
\* Board is Copy: a struct of one inline array of Option<Team>.  Address 1
\* holds a board, "let mut test_board = *board" makes the copy.

BoardIdle ==
  /\ field = EmptyBoard
  /\ target = [board |-> EmptyBoard, last |-> 0, tests |-> FALSE]
  /\ free = 0
  /\ ret = NoCall
  /\ column = 0
  /\ team = "X"
  /\ access = {}
  /\ before = EmptyBoard

InitCopy ==
  /\ BoardIdle
  /\ CopyIdle
  /\ SearchIdle
  /\ LeagueIdle
  /\ TrainIdle
  /\ GameIdle

\* A copy that is another name of the same storage.
CopyBoard_alias ==
  /\ copyAt = 0
  /\ copyAt' = 1
  /\ snap' = heap[1]
  /\ heap' = heap
  /\ UNCHANGED <<touched, moves, boardVars, gameVars, searchVars, leagueVars, trainVars>>

\* The derived Copy of Board: the array is duplicated into new storage.
CopyBoard ==
  /\ copyAt = 0
  /\ copyAt' = 2
  /\ snap' = heap[1]
  /\ heap' = [heap EXCEPT ![2] = heap[1]]
  /\ UNCHANGED <<touched, moves, boardVars, gameVars, searchVars, leagueVars, trainVars>>

\* put_tile through the original.
PutOriginal(c, t) ==
  /\ moves < MaxCopyMoves
  /\ put_tile(heap[1], c, t).ret = Ok
  /\ heap' = [heap EXCEPT ![1] = put_tile(heap[1], c, t).field]
  /\ touched' = IF copyAt = 0 THEN touched ELSE touched \cup {"original"}
  /\ moves' = moves + 1
  /\ UNCHANGED <<copyAt, snap, boardVars, gameVars, searchVars, leagueVars, trainVars>>

\* put_tile through the copy.
PutCopy(c, t) ==
  /\ copyAt # 0
  /\ moves < MaxCopyMoves
  /\ put_tile(heap[copyAt], c, t).ret = Ok
  /\ heap' = [heap EXCEPT ![copyAt] = put_tile(heap[copyAt], c, t).field]
  /\ touched' = touched \cup {"copy"}
  /\ moves' = moves + 1
  /\ UNCHANGED <<copyAt, snap, boardVars, gameVars, searchVars, leagueVars, trainVars>>

NextCopy ==
  \/ CopyBoard
  \/ \E c \in Columns, t \in Teams : PutOriginal(c, t)
  \/ \E c \in Columns, t \in Teams : PutCopy(c, t)

SpecCopy == InitCopy /\ [][NextCopy]_vars

----------------------------------------------------------------------------
\* Game::run and Game::run_error_loss with players that return any usize.

\* One half of the loop body of a game method (the X half or the O half):
\* the board, what the method has produced and whether the loop goes on.
HalfResult(b, o) == [board |-> b, outcome |-> o]

\* A half of Game::run that drops the result of put_tile.
run_half_ignored(b, t, c) ==
  LET r == put_tile(b, c, t)
  IN IF r.ret # Ok
     THEN HalfResult(b, Running)
     ELSE IF game_result_on_change(r.field, c) # NoResult
          THEN HalfResult(r.field, Returned(game_result_on_change(r.field, c)))
          ELSE HalfResult(r.field, Running)

\* A half of Game::run that never looks at the result of the game.
run_half_unchecked(b, t, c) ==
  LET r == put_tile(b, c, t)
  IN IF r.ret # Ok
     THEN HalfResult(b, Failed(r.ret))
     ELSE HalfResult(r.field, Running)

\* A half of Game::run: make_move returned c for team t; put_tile(c, t)?;
\* then the check of the column just played.
run_half(b, t, c) ==
  LET r == put_tile(b, c, t)
  IN IF r.ret # Ok
     THEN HalfResult(b, Failed(r.ret))
     ELSE IF game_result_on_change(r.field, c) # NoResult
          THEN HalfResult(r.field, Returned(game_result_on_change(r.field, c)))
          ELSE HalfResult(r.field, Running)

\* A half of Game::run_error_loss that names the offender the winner.
run_error_loss_half_offender(b, t, c) ==
  LET r == put_tile(b, c, t)
  IN IF r.ret.kind = "FieldFullAtColumn"
     THEN HalfResult(b, Returned(Winner(r.ret.team)))
     ELSE IF r.ret # Ok
          THEN HalfResult(b, Panicked(r.ret))
          ELSE IF game_result_on_change(r.field, c) # NoResult
               THEN HalfResult(r.field, Returned(game_result_on_change(r.field, c)))
               ELSE HalfResult(r.field, Running)

\* A half of Game::run_error_loss that turns every error into a loss.
run_error_loss_half_lenient(b, t, c) ==
  LET r == put_tile(b, c, t)
  IN IF r.ret # Ok
     THEN HalfResult(b, Returned(Winner(other(t))))
     ELSE IF game_result_on_change(r.field, c) # NoResult
          THEN HalfResult(r.field, Returned(game_result_on_change(r.field, c)))
          ELSE HalfResult(r.field, Running)

\* A half of Game::run_error_loss: the match on put_tile(c, t), then the
\* check of the column just played.
run_error_loss_half(b, t, c) ==
  LET r == put_tile(b, c, t)
  IN IF r.ret.kind = "FieldFullAtColumn"
     THEN HalfResult(b, Returned(Winner(other(r.ret.team))))
     ELSE IF r.ret # Ok
          THEN HalfResult(b, Panicked(r.ret))
          ELSE IF game_result_on_change(r.field, c) # NoResult
               THEN HalfResult(r.field, Returned(game_result_on_change(r.field, c)))
               ELSE HalfResult(r.field, Running)

\* Game play columns: a game is a list of the columns the players return,
\* X first; past its end the list starts over.
VerticalXGame == <<4, 2, 4, 3, 4, 6, 4>>
VerticalOGame == <<1, 1, 2, 1, 6, 1, 3, 1>>
HorizontalXGame == <<6, 1, 3, 3, 5, 2, 4>>
HorizontalOGame == <<0, 6, 1, 5, 0, 3, 5, 4>>
DiagonalUpXGame == <<4, 4, 2, 0, 1, 4, 2, 3, 4, 3, 3>>
DiagonalUpOGame == <<2, 1, 3, 2, 3, 3, 4, 4, 4, 4>>
DiagonalDownXGame == <<4, 2, 1, 2, 3, 5, 2, 1, 3, 1, 1>>
DiagonalDownOGame == <<5, 6, 3, 5, 6, 4, 3, 3, 0, 3, 4, 4>>
DrawGame ==
  <<4, 3, 6, 0, 1, 4, 5, 5, 1, 1, 5, 0, 1, 6, 0, 1, 5, 5, 1, 0, 4,
    6, 3, 2, 6, 6, 0, 4, 6, 5, 2, 0, 4, 2, 4, 2, 2, 2, 3, 3, 3, 3>>
\* What to type against MinimaxPlayer of deepness 1 as O to fill the board
\* without four in a row (the columns at the even places are its answers).
MinimaxDrawGame ==
  <<2, 5, 1, 5, 5, 4, 0, 4, 6, 4, 4, 3, 3, 3, 4, 4, 3, 2, 0, 2, 2,
    1, 1, 6, 0, 6, 6, 5, 5, 5, 2, 2, 6, 3, 3, 1, 1, 1, 6, 0, 0, 0>>
FullColumnXGame == <<0, 0, 0, 0, 0, 0, 0>>
FullColumnOGame == <<1, 0, 0, 0, 0, 0, 0, 0>>
OutOfBoundsGame == <<3, 3, W>>

GamePlans ==
  {VerticalXGame, VerticalOGame, HorizontalXGame, HorizontalOGame,
   DiagonalUpXGame, DiagonalUpOGame, DiagonalDownXGame, DiagonalDownOGame,
   DrawGame, FullColumnXGame, FullColumnOGame, OutOfBoundsGame}

\* The column the players' list holds for the next request.
PlanColumn == plan[(Len(requests) % Len(plan)) + 1]

\* What a player may return: the column of the list or, a bounded number
\* of times, any usize at all. The same number bounds how often the set of
\* possible moves of an implementation iterates in another order than from
\* the left.
PlayerColumns ==
  {PlanColumn} \cup (IF deviations < MaxDeviations THEN CallColumns ELSE {})

InitGame ==
  /\ BoardIdle
  /\ CopyIdle
  /\ SearchIdle
  /\ LeagueIdle
  /\ TrainIdle
  /\ gboard = EmptyBoard
  /\ mode \in {"run", "run_error_loss"}
  /\ pc = "x"
  /\ outcome = Running
  /\ requests = << >>
  /\ gprev = EmptyBoard
  /\ plan \in GamePlans
  /\ deviations = 0
  /\ players = [t \in Teams |-> AnyPlayer]
  /\ iterated = << >>

\* The iteration orders of possible_moves() in the coming make_move.
OrdersNow ==
  {IterationOrder(gboard, p) :
     p \in IF deviations < MaxDeviations THEN ColumnOrders ELSE {Ascending}}

\* What the numbers typed at an IoPlayer are: the column of the list, then
\* the columns from the left.
Typed == <<PlanColumn>> \o Ascending

\* make_move of player p for team t when possible_moves() iterates in the
\* order o; the column of the list is what the generator yields, what the
\* network predicts, and what is typed first.
ImplMove(p, t, o) ==
  IF p.impl = "Random" THEN random_make_move(o, PlanColumn)
  ELSE IF p.impl = "Model" THEN model_make_move(gboard, PlanColumn % W, o, PlanColumn)
  ELSE IF p.impl = "Io" THEN io_make_move(gboard, Typed)
  ELSE IF p.impl = "Minimax" THEN make_move(p.deepness, gboard, t, o)
  ELSE cli_make_move(p.deepness, gboard, t, o)

\* What the player of team t may return to the coming request.
Returns(t) ==
  IF players[t] = AnyPlayer
  THEN {[column |-> c, order |-> << >>] : c \in PlayerColumns}
  ELSE {[column |-> ImplMove(players[t], t, o), order |-> o] : o \in OrdersNow}

\* m leaves the list, or the order from the left.
Deviates(t, m) ==
  IF players[t] = AnyPlayer
  THEN m.column # PlanColumn
  ELSE m.order # IterationOrder(gboard, Ascending)

\* The bookkeeping of one half of the loop body: h is what the half did
\* when the player of team t returned m.
Half(t, m, h) ==
  /\ requests' = Append(requests, [team |-> t, column |-> m.column])
  /\ iterated' = m.order
  /\ deviations' = IF Deviates(t, m) THEN deviations + 1 ELSE deviations
  /\ gprev' = gboard
  /\ gboard' = h.board
  /\ outcome' = h.outcome
  /\ pc' = IF h.outcome # Running THEN "done" ELSE IF t = "X" THEN "o" ELSE "x"
  /\ search' = NoSearch
  /\ UNCHANGED <<mode, plan, players, searcher, boardVars, copyVars,
               leagueVars, trainVars>>

\* Game::run, lines 37-42 and 44-49.
RunX ==
  /\ mode = "run"
  /\ pc = "x"
  /\ \E m \in Returns("X") : Half("X", m, run_half(gboard, "X", m.column))

RunO ==
  /\ mode = "run"
  /\ pc = "o"
  /\ \E m \in Returns("O") : Half("O", m, run_half(gboard, "O", m.column))

\* Game::run_error_loss, lines 56-65 and 67-76.
RunErrorLossX ==
  /\ mode = "run_error_loss"
  /\ pc = "x"
  /\ \E m \in Returns("X") :
       Half("X", m, run_error_loss_half(gboard, "X", m.column))

RunErrorLossO ==
  /\ mode = "run_error_loss"
  /\ pc = "o"
  /\ \E m \in Returns("O") :
       Half("O", m, run_error_loss_half(gboard, "O", m.column))

NextGame == RunX \/ RunO \/ RunErrorLossX \/ RunErrorLossO

SpecGame == InitGame /\ [][NextGame]_vars

----------------------------------------------------------------------------
\* Games between the player implementations of the repository.

\* A game to play: who plays X and O, the list that drives what is random,
\* predicted or typed, and the method that runs it.
Setup(x, o, p, m) == [X |-> x, O |-> o, plan |-> p, mode |-> m]

Setups ==
  {Setup(MinimaxPlayer(1), RandomPlayer, DrawGame, "run_error_loss"),
   Setup(RandomPlayer, MinimaxPlayer(3), VerticalXGame, "run"),
   Setup(CliMinimaxPlayer(1), IoPlayer, OutOfBoundsGame, "run"),
   Setup(ModelPlayer, IoPlayer, FullColumnOGame, "run_error_loss"),
   Setup(IoPlayer, ModelPlayer, FullColumnXGame, "run"),
   Setup(RandomPlayer, ModelPlayer, DrawGame, "run_error_loss"),
   Setup(IoPlayer, MinimaxPlayer(1), MinimaxDrawGame, "run")}

InitPlay ==
  /\ BoardIdle
  /\ CopyIdle
  /\ SearchIdle
  /\ LeagueIdle
  /\ TrainIdle
  /\ gboard = EmptyBoard
  /\ pc = "x"
  /\ outcome = Running
  /\ requests = << >>
  /\ gprev = EmptyBoard
  /\ deviations = 0
  /\ iterated = << >>
  /\ \E s \in Setups :
       /\ players = [t \in Teams |-> s[t]]
       /\ plan = s.plan
       /\ mode = s.mode

NextPlay == RunX \/ RunO \/ RunErrorLossX \/ RunErrorLossO

SpecPlay == InitPlay /\ [][NextPlay]_vars

----------------------------------------------------------------------------
\* Searches of MinimaxPlayer on the boards of games played by the list.

\* O threatens column 0 and, with a tile at column 5, the bottom row twice.
ForcedBlockGame == <<1, 4, 4, 3, 3, 0, 4, 0, 3, 0>>

\* The deepest search made on every list.
MaxDeepness == 3

SearchSetup(p, d, hf) == [plan |-> p, searcher |-> Searcher(d, hf)]

SearchSetups ==
  {SearchSetup(p, d, "heuristic_1") :
     p \in GamePlans \cup {ForcedBlockGame}, d \in 0 .. MaxDeepness}
  \cup {SearchSetup(DrawGame, d, "not_a_number") : d \in 1 .. MaxDeepness}
  \cup {SearchSetup(p, d, "sometimes_a_number") :
          p \in {VerticalXGame, FullColumnOGame}, d \in 1 .. MaxDeepness}
  \cup {SearchSetup(ForcedBlockGame, d, "heuristic_1") : d \in {4, 5}}

InitSearch ==
  /\ BoardIdle
  /\ CopyIdle
  /\ LeagueIdle
  /\ TrainIdle
  /\ gboard = EmptyBoard
  /\ mode = "run"
  /\ pc = "x"
  /\ outcome = Running
  /\ requests = << >>
  /\ gprev = EmptyBoard
  /\ deviations = MaxDeviations
  /\ players = [t \in Teams |-> AnyPlayer]
  /\ iterated = << >>
  /\ search = NoSearch
  /\ \E s \in SearchSetups :
       /\ plan = s.plan
       /\ searcher = s.searcher

\* The searchers deeper than MaxDeepness are asked once, at the end of the
\* list.
DeepFrom == Len(ForcedBlockGame)

\* Who may call make_move on the board of the game: the team whose turn it
\* is while the game runs, anyone on a full board.
Callers ==
  IF searcher.deepness > MaxDeepness /\ Len(requests) # DeepFrom THEN {}
  ELSE IF outcome = Running THEN {IF pc = "x" THEN "X" ELSE "O"}
  ELSE IF possible_moves(gboard) = {} THEN Teams ELSE {}

\* searcher.make_move(&board, me), the set of possible moves iterating in
\* one of its orders.
SearchMove ==
  /\ search = NoSearch
  /\ \E me \in Callers : \E p \in ColumnOrders :
       LET o == IterationOrder(gboard, p)
       IN search' = [root |-> gboard, me |-> me, order |-> o,
                     found |-> Search(searcher, gboard, me, o)]
  /\ UNCHANGED <<searcher, boardVars, copyVars, gameVars, leagueVars,
               trainVars>>

NextSearch == RunX \/ RunO \/ SearchMove

SpecSearch == InitSearch /\ [][NextSearch]_vars

----------------------------------------------------------------------------
\* league_scores of the train crate: every matchup is a closure that
\* rayon runs on some thread, at any time relative to the others.

\* The most models the league has.
MaxModels == 2

\* The matchups (i, j), lines 35-40.
Matchups == (0 .. models - 1) \X (0 .. models - 1)

\* What run_error_loss returns.
GameResults == {Winner("X"), Winner("O"), Draw}

\* The closure of a matchup: where it is, the result of its game and the
\* score it read last.
Task(a, r, l) == [at |-> a, result |-> r, loaded |-> l]

\* What league_scores leaves alone.
OutsideLeague == <<boardVars, copyVars, gameVars, searchVars, trainVars>>

InitLeague ==
  /\ BoardIdle
  /\ CopyIdle
  /\ GameIdle
  /\ SearchIdle
  /\ TrainIdle
  /\ models \in 0 .. MaxModels
  /\ tasks = [m \in Matchups |-> Task("queued", NoResult, 0)]
  /\ scores = [k \in 0 .. models - 1 |-> 0]
  /\ guard = NoGuard
  /\ returned = NotReturned

\* A lock that is handed out while another closure holds it.
Lockable_always == TRUE

\* Mutex::lock returns when no guard is alive.
Lockable == guard = NoGuard

\* The element of scores that the closure of m is at: scores[i] first, then
\* scores[j].
ScoreIndex(m) == IF tasks[m].at \in {"load_i", "store_i"} THEN m[1] ELSE m[2]

\* What the closure of m adds to that element: lines 48-54.
ScoreChange(m) ==
  IF tasks[m].result = Winner("X")
  THEN IF tasks[m].at \in {"load_i", "store_i"} THEN 1 ELSE 0 - 1
  ELSE IF tasks[m].at \in {"load_i", "store_i"} THEN 0 - 1 ELSE 1

\* Lines 44-46: the game of the matchup is built and run, and the closure
\* ends unless the game has a winner.
RunGame(m) ==
  /\ tasks[m].at = "queued"
  /\ \E r \in GameResults :
       tasks' = [tasks EXCEPT ![m] =
                   Task(IF r.kind = "Winner" THEN "lock" ELSE "done", r, 0)]
  /\ UNCHANGED <<models, scores, guard, returned>>
  /\ UNCHANGED OutsideLeague

\* Line 47.
Lock(m) ==
  /\ tasks[m].at = "lock"
  /\ Lockable
  /\ guard' = m
  /\ tasks' = [tasks EXCEPT ![m].at = "load_i"]
  /\ UNCHANGED <<models, scores, returned>>
  /\ UNCHANGED OutsideLeague

\* The read of scores[i] += .. or scores[j] += ..
Load(m) ==
  /\ tasks[m].at \in {"load_i", "load_j"}
  /\ tasks' = [tasks EXCEPT
                 ![m] = Task(IF tasks[m].at = "load_i" THEN "store_i" ELSE "store_j",
                             tasks[m].result, scores[ScoreIndex(m)])]
  /\ UNCHANGED <<models, scores, guard, returned>>
  /\ UNCHANGED OutsideLeague

\* The write of scores[i] += .. or scores[j] += ..
Store(m) ==
  /\ tasks[m].at \in {"store_i", "store_j"}
  /\ scores' = [scores EXCEPT ![ScoreIndex(m)] = tasks[m].loaded + ScoreChange(m)]
  /\ tasks' = [tasks EXCEPT
                 ![m].at = IF tasks[m].at = "store_i" THEN "load_j" ELSE "unlock"]
  /\ UNCHANGED <<models, guard, returned>>
  /\ UNCHANGED OutsideLeague

\* Line 55: the guard is dropped.
Unlock(m) ==
  /\ tasks[m].at = "unlock"
  /\ guard' = NoGuard
  /\ tasks' = [tasks EXCEPT ![m].at = "done"]
  /\ UNCHANGED <<models, scores, returned>>
  /\ UNCHANGED OutsideLeague

\* Line 57, after for_each has run every closure.
IntoInner ==
  /\ returned = NotReturned
  /\ \A m \in Matchups : tasks[m].at = "done"
  /\ returned' = scores
  /\ UNCHANGED <<models, tasks, scores, guard>>
  /\ UNCHANGED OutsideLeague

NextLeague ==
  \/ \E m \in Matchups : RunGame(m)
  \/ \E m \in Matchups : Lock(m)
  \/ \E m \in Matchups : Load(m)
  \/ \E m \in Matchups : Store(m)
  \/ \E m \in Matchups : Unlock(m)
  \/ IntoInner

SpecLeague == InitLeague /\ [][NextLeague]_vars

----------------------------------------------------------------------------
\* EvolutionTrainer of the train crate, driven by the loop of main_evo. A
\* model is a number that names it; what the evaluator makes of a model is
\* any score.

\* The most models loaded, and the greatest population_min and
\* population_max.
MaxPopulation == 3

\* The rounds of the loop of main_evo that are followed.
MaxSteps == 2

\* The scores an evaluator returns.
Scores == {0, 1, 2, NaN}

ScoreWasNaN == "Score was NaN"
\* The panic of an index outside a slice.
IndexPanic == "index out of bounds"

\* (self.init_fn)(), breed and mutate: a model that is not in population p.
NewModel(p) ==
  Min({id \in 1 .. Len(p) + 1 : \A k \in DOMAIN p : p[k] # id})

\* while self.population.len() < n { self.population.push(..) }
RECURSIVE Pushed(_, _)
Pushed(p, n) == IF Len(p) >= n THEN p ELSE Pushed(Append(p, NewModel(p)), n)

\* What generate_population can make of the trainer t: the second loop
\* takes a new model or breeds one from selected[0] and selected[1], which
\* choose_multiple fills only from a population of two or more.
generate_population(t) ==
  LET least == Pushed(t.population, t.population_min)
  IN {[population |-> Pushed(least, t.population_max), panic |-> NoPanic]}
     \cup IF Len(least) < t.population_max /\ Len(least) < 2
          THEN {[population |-> least, panic |-> IndexPanic]}
          ELSE {}

\* self.population.drain(..).zip(scores), line 265.
Zip(p, sc) == [k \in DOMAIN p |-> [model |-> p[k], score |-> sc[k]]]

\* A comparison that puts the smaller score first.
Compare_ascending(x, y) == partial_cmp(x.score, y.score)

\* The comparison of line 267, b.partial_cmp(a).
Compare(x, y) == partial_cmp(y.score, x.score)

\* What sort_unstable_by can make of ps: a panic when a comparison fails,
\* and else ps in any order in which no element compares Greater than the
\* next.
sort_unstable_by(ps) ==
  IF Len(ps) > 1 /\ \E k \in DOMAIN ps : ps[k].score = NaN
  THEN {[sorted |-> ps, panic |-> ScoreWasNaN]}
  ELSE {[sorted |-> [k \in DOMAIN ps |-> ps[f[k]]], panic |-> NoPanic] :
          f \in {g \in [DOMAIN ps -> DOMAIN ps] :
                   /\ \A j, k \in DOMAIN ps : j # k => g[j] # g[k]
                   /\ \A k \in 1 .. Len(ps) - 1 :
                        Compare(ps[g[k]], ps[g[k + 1]]) # "Greater"}}

\* into_iter().take(n).map(|(m, _s)| m), line 269.
Take(ps, n) == [k \in 1 .. Min({n, Len(ps)}) |-> ps[k].model]

\* What main_evo leaves alone.
OutsideTrain == <<boardVars, copyVars, gameVars, searchVars, leagueVars>>

InitTrain ==
  /\ BoardIdle
  /\ CopyIdle
  /\ GameIdle
  /\ SearchIdle
  /\ LeagueIdle
  /\ \E n, lo, hi \in 0 .. MaxPopulation :
       trainer = Trainer([k \in 1 .. n |-> k], lo, hi)
  /\ evaluated = << >>
  /\ evo = Evo("train_step", 0, NoModel, NoPanic)

\* trainer.train_step(), lib.rs:259-273, that ends in a panic of
\* generate_population.
TrainStepFailsToGenerate ==
  /\ evo.at = "train_step"
  /\ \E g \in generate_population(trainer) :
       /\ g.panic # NoPanic
       /\ evo' = [evo EXCEPT !.at = "panic", !.panic = g.panic]
  /\ UNCHANGED <<trainer, evaluated>>
  /\ UNCHANGED OutsideTrain

\* trainer.train_step() that ends in a panic of the sort.
TrainStepFailsToSort ==
  /\ evo.at = "train_step"
  /\ \E g \in generate_population(trainer) :
       /\ g.panic = NoPanic
       /\ \E sc \in [DOMAIN g.population -> Scores] :
            \E s \in sort_unstable_by(Zip(g.population, sc)) :
              /\ s.panic # NoPanic
              /\ evaluated' = Zip(g.population, sc)
              /\ evo' = [evo EXCEPT !.at = "panic", !.panic = s.panic]
  /\ UNCHANGED trainer
  /\ UNCHANGED OutsideTrain

\* trainer.train_step() that returns.
TrainStep ==
  /\ evo.at = "train_step"
  /\ \E g \in generate_population(trainer) :
       /\ g.panic = NoPanic
       /\ \E sc \in [DOMAIN g.population -> Scores] :
            \E s \in sort_unstable_by(Zip(g.population, sc)) :
              /\ s.panic = NoPanic
              /\ evaluated' = Zip(g.population, sc)
              /\ trainer' = [trainer EXCEPT
                               !.population = Take(s.sorted, trainer.population_min)]
  /\ evo' = [evo EXCEPT !.at = "test"]
  /\ UNCHANGED OutsideTrain

\* main.rs:83-86: population()[0] is tested, and the loop goes round.
TestFirst ==
  /\ evo.at = "test"
  /\ evo' = IF trainer.population = << >>
            THEN [evo EXCEPT !.at = "panic", !.panic = IndexPanic]
            ELSE Evo(IF evo.i + 1 < MaxSteps THEN "train_step" ELSE "done",
                     evo.i + 1, trainer.population[1], NoPanic)
  /\ UNCHANGED <<trainer, evaluated>>
  /\ UNCHANGED OutsideTrain

NextTrain ==
  TrainStepFailsToGenerate \/ TrainStepFailsToSort \/ TrainStep \/ TestFirst

SpecTrain == InitTrain /\ [][NextTrain]_vars

----------------------------------------------------------------------------
\* Vocabulary of the properties.

Occupied(b) == {i \in Cells : b[i] # "None"}

Full(b) == Occupied(b) = Cells

\* The runs of four cells of the board, as sets of <<column, row>>, in the
\* four directions.
Directions == {<<0, 1>>, <<1, 0>>, <<1, 1>>, <<1, -1>>}

Lines ==
  {L \in {{<<x + k * d[1], y + k * d[2]>> : k \in 0 .. 3} :
            x \in Columns, y \in Rows, d \in Directions} :
     \A p \in L : p[1] \in Columns /\ p[2] \in Rows}

Owns(b, L, t) == \A p \in L : b[p[1] * H + p[2]] = t

HasLine(b, t) == \E L \in Lines : Owns(b, L, t)

NoLine(b) == ~HasLine(b, "X") /\ ~HasLine(b, "O")

\* The row of the topmost tile of a column that holds one.
TopRow(b, c) == CHOOSE y \in Rows :
  /\ b[c * H + y] # "None"
  /\ \A yy \in Rows : b[c * H + yy] # "None" => yy <= y

----------------------------------------------------------------------------
\* C1: when the board showed no result and put_tile(column, team) then
\* placed a tile, game_result_on_change(column) on the new board equals
\* game_result() on the new board.
C1_IncrementalEqualsFullScan ==
  (ret = Ok /\ game_result(before) = NoResult) =>
     game_result_on_change(field, column) = game_result(field)

\* A move completed a four-in-a-row on a board that had no result.
C1_Witness ==
  /\ ret = Ok
  /\ game_result(before) = NoResult
  /\ game_result_on_change(field, column) = Winner(team)
  /\ game_result(field) = Winner(team)

\* C2: a successful put_tile(column, team) writes team at index
\* column * H + r, r being the number of tiles the column held, which is its
\* lowest empty row; no other cell changes, and no call changes or clears
\* an occupied cell.
C2_PutTileWritesLowestEmptyRow ==
  [][/\ ret' = Ok =>
          LET r == Height(field, column')
          IN /\ \A y \in 0 .. (r - 1) : field[column' * H + y] # "None"
             /\ field[column' * H + r] = "None"
             /\ field' = [field EXCEPT ![column' * H + r] = team']
     /\ \A i \in Cells : field[i] # "None" => field'[i] = field[i]]_vars

\* A tile was placed on top of two others.
C2_Witness ==
  /\ ret = Ok
  /\ Height(field, column) = 3
  /\ field[column * H + 2] = team
  /\ Cardinality(Occupied(field)) = Cardinality(Occupied(before)) + 1

\* C3: put_tile on a column that holds H tiles returns FieldFullAtColumn
\* with the team of the call and changes no cell.
C3_FullColumnRejected ==
  [][(column' < W /\ Height(field, column') = H) =>
        /\ ret' = FieldFullAtColumn(team')
        /\ field' = field]_vars

\* Team O was refused on a full column.
C3_Witness ==
  /\ ret = FieldFullAtColumn("O")
  /\ team = "O"
  /\ Height(field, column) = H

\* C4: put_tile with a column >= W returns IndexOutOfBounds, reads and
\* writes no cell and changes nothing, whatever the board; and a call that
\* places no tile never reports success.
C4_OutOfBoundsRejected ==
  [][/\ column' >= W =>
          /\ ret' = IndexOutOfBounds
          /\ access' = {}
          /\ field' = field
     /\ field' = field =>
          ret'.kind \in {"IndexOutOfBounds", "FieldFullAtColumn"}]_vars

\* A column beyond the board was refused on the full board.
C4_Witness ==
  /\ ret = IndexOutOfBounds
  /\ column >= W
  /\ Full(field)

\* C5: in every column the occupied cells are the rows 0 .. k - 1 for some
\* k: no empty cell lies below an occupied one.
C5_Gravity ==
  \A c \in Columns : \A y \in Rows :
     field[c * H + y] # "None" =>
        \A yy \in 0 .. (y - 1) : field[c * H + yy] # "None"

\* Columns of different heights after calls of the caller's own, the last
\* of them refused.
C5_Witness ==
  /\ free >= 1
  /\ ret.kind = "FieldFullAtColumn"
  /\ \E c \in Columns : Height(field, c) \in 1 .. (H - 1)

\* C6: game_result() is Winner(t) whenever team t owns a run of four cells
\* in a column, a row or a diagonal, anywhere on the board, and the other
\* team owns none.
C6_FullScanFindsEveryLine ==
  \A t \in Teams :
     (HasLine(field, t) /\ ~HasLine(field, other(t))) =>
        game_result(field) = Winner(t)

\* Team O owns the four rightmost cells of the top row and X owns no run.
C6_Witness ==
  /\ Owns(field, {<<x, H - 1>> : x \in (W - 4) .. (W - 1)}, "O")
  /\ ~HasLine(field, "X")
  /\ game_result(field) = Winner("O")

\* C7: on a board without a run of four, game_result() is Draw exactly
\* when every cell is occupied and None exactly when some cell is empty.
C7_DrawOrRunning ==
  NoLine(field) =>
     /\ game_result(field) = Draw <=> Full(field)
     /\ game_result(field) = NoResult <=> ~Full(field)

\* The full board without a run of four.
C7_Witness ==
  /\ Full(field)
  /\ NoLine(field)
  /\ game_result(field) = Draw

\* C8: on a board without a run of four, game_result() and
\* game_result_on_change(c) of every column are Draw when the board is
\* full, and game_result_on_change(c) of every column is None when it is
\* not.
C8_OnChangeDrawOrRunning ==
  NoLine(field) =>
     /\ Full(field) =>
          /\ game_result(field) = Draw
          /\ \A c \in Columns : game_result_on_change(field, c) = Draw
     /\ ~Full(field) =>
          \A c \in Columns : game_result_on_change(field, c) = NoResult

\* A board without a run of four that has both a full column and an empty
\* cell, reached by a move of the caller's own.
C8_Witness ==
  /\ NoLine(field)
  /\ ~Full(field)
  /\ free >= 1
  /\ ret = Ok
  /\ \E c \in Columns : Height(field, c) = H
  /\ \A c \in Columns : game_result_on_change(field, c) = NoResult

\* C9: game_result_on_change(c) is None for every column c without a tile.
C9_EmptyColumnIsNone ==
  \A c \in Columns :
     Height(field, c) = 0 => game_result_on_change(field, c) = NoResult

\* A column is empty while another team's run of four stands elsewhere.
C9_Witness ==
  /\ \E t \in Teams : HasLine(field, t)
  /\ \E c \in Columns :
       /\ Height(field, c) = 0
       /\ game_result_on_change(field, c) = NoResult

\* C10: for every column c that holds a tile, if the topmost tile of c, of
\* team t, is one of the cells of a run of four of t, then
\* game_result_on_change(c) is Winner(t), c being the column of the last
\* move or not.
C10_OnChangeFindsLinesThroughAnchor ==
  \A c \in Columns :
     Height(field, c) > 0 =>
        LET y == TopRow(field, c)
            t == field[c * H + y]
        IN (\E L \in Lines : <<c, y>> \in L /\ Owns(field, L, t)) =>
              game_result_on_change(field, c) = Winner(t)

\* The top tile of a column that was not played last is the third cell of
\* a descending diagonal of its team.
C10_Witness ==
  /\ ret = Ok
  /\ \E c \in Columns \ {column} :
       /\ Height(field, c) > 0
       /\ c >= 2 /\ c + 1 < W
       /\ LET y == TopRow(field, c)
              t == field[c * H + y]
          IN /\ y >= 1 /\ y + 2 < H
             /\ Owns(field, {<<c - 2, y + 2>>, <<c - 1, y + 1>>, <<c, y>>,
                             <<c + 1, y - 1>>}, t)
             /\ game_result_on_change(field, c) = Winner(t)

\* C11: whos_turn() is X on the empty board, changes to the other team with
\* every successful put_tile and keeps its value over a refused one; it is
\* X exactly when the number of occupied cells is even.
C11_TurnAlternates ==
  /\ ret = NoCall => whos_turn(field) = "X"
  /\ ret = Ok => whos_turn(field) = other(whos_turn(before))
  /\ ret.kind \in {"IndexOutOfBounds", "FieldFullAtColumn"} =>
       whos_turn(field) = whos_turn(before)
  /\ whos_turn(field) = "X" <=> Cardinality(Occupied(field)) % 2 = 0

\* The third tile was placed: it is O's turn after it was X's.
C11_Witness ==
  /\ ret = Ok
  /\ Cardinality(Occupied(field)) = 3
  /\ whos_turn(before) = "X"
  /\ whos_turn(field) = "O"

\* C12: possible_moves() is the set of columns whose top row is empty; a
\* put_tile on a column of the board succeeds exactly when the column is in
\* possible_moves(); possible_moves() is empty exactly when the board is
\* full.
C12_PossibleMovesAreTheLegalMoves ==
  /\ possible_moves(field) = {c \in Columns : field[c * H + H - 1] = "None"}
  /\ \A c \in Columns : \A t \in Teams :
       put_tile(field, c, t).ret = Ok <=> c \in possible_moves(field)
  /\ possible_moves(field) = {} <=> Full(field)

\* Some columns are full and others are not.
C12_Witness ==
  /\ Cardinality(possible_moves(field)) = 3
  /\ \A c \in Columns \ possible_moves(field) : Height(field, c) = H
  /\ \E c \in possible_moves(field) : Height(field, c) \in 1 .. (H - 1)

\* C13: once a board is copied, put_tile calls on the copy leave every cell
\* of the original as it was at the copy, and put_tile calls on the
\* original leave every cell of the copy as it was.
C13_CopyIsIndependent ==
  copyAt # 0 =>
     /\ "original" \notin touched => heap[1] = snap
     /\ "copy" \notin touched => heap[copyAt] = snap

\* Two tiles went on the copy of a board that holds one.
C13_Witness ==
  /\ copyAt # 0
  /\ touched = {"copy"}
  /\ Cardinality(Occupied(snap)) = 1
  /\ Cardinality(Occupied(heap[copyAt])) = 3
  /\ heap[1] = snap

\* The last make_move request of the game.
LastRequest == requests[Len(requests)]

\* The team a game method asks for its n-th move: X first, then in turn.
TeamOfRequest(n) == IF n % 2 = 1 THEN "X" ELSE "O"

\* C14: Game::run asks X then O in strict alternation while it is running,
\* places each returned column with put_tile for the team asked, returns
\* Err(error) at once when put_tile fails, checks game_result_on_change for
\* the column just played after each success, and returns the first result
\* that is not None; once it has returned it requests no further move.
C14_RunAlternatesAndReturnsFirstResult ==
  [][mode = "run" =>
       /\ outcome = Running
       /\ Len(requests') = Len(requests) + 1
       /\ LET q == requests'[Len(requests')]
              r == put_tile(gboard, q.column, q.team)
          IN /\ q.team = TeamOfRequest(Len(requests'))
             /\ gboard' = r.field
             /\ r.ret # Ok => outcome' = Failed(r.ret)
             /\ r.ret = Ok =>
                  outcome' = IF game_result_on_change(gboard', q.column) = NoResult
                             THEN Running
                             ELSE Returned(game_result_on_change(gboard', q.column))]_vars

C14_Witness ==
  /\ mode = "run"
  /\ Len(requests) = 8
  /\ outcome = Returned(Winner("O"))
  /\ deviations = 1

\* C15: in Game::run_error_loss a team that returns a full column loses at
\* once: the method returns Winner of the other team, the board stays as it
\* was before the attempt, and no further move is requested.
C15_FullColumnLosesAtOnce ==
  [][mode = "run_error_loss" =>
       /\ outcome = Running
       /\ LET q == requests'[Len(requests')]
          IN q.column < W /\ Height(gboard, q.column) = H =>
               /\ outcome' = Returned(Winner(other(q.team)))
               /\ gboard' = gboard
               /\ pc' = "done"]_vars

C15_Witness ==
  /\ mode = "run_error_loss"
  /\ outcome = Returned(Winner("X"))
  /\ LastRequest.team = "O"
  /\ Height(gboard, LastRequest.column) = H
  /\ gboard = gprev

\* C16: in Game::run_error_loss a returned column that is not below the
\* width is fatal: the method panics and gives no game result, so every
\* game it returns a result for had all returned columns below the width.
C16_OutOfBoundsIsFatal ==
  mode = "run_error_loss" =>
    /\ requests # << >> /\ LastRequest.column >= W =>
         outcome = Panicked(IndexOutOfBounds)
    /\ outcome.kind = "Returned" =>
         \A i \in 1 .. Len(requests) : requests[i].column < W

C16_Witness ==
  /\ mode = "run_error_loss"
  /\ outcome = Panicked(IndexOutOfBounds)
  /\ Len(requests) > 2
  /\ LastRequest.column = UsizeRange - 1

\* C20: heuristic_1(me) gives f64::MAX on a board where me has four in a
\* row, f64::MIN where the opponent has, exactly 0 on a full board without
\* four in a row, and the neighbourhood sum on every other board only.
C20_HeuristicShortCircuitsOnTerminalBoards ==
  \A me \in Teams :
    /\ HasLine(gboard, me) => heuristic_1(gboard, me) = F64Max
    /\ HasLine(gboard, other(me)) => heuristic_1(gboard, me) = F64Min
    /\ Full(gboard) /\ NoLine(gboard) => heuristic_1(gboard, me) = 0
    /\ ~Full(gboard) /\ NoLine(gboard) =>
         heuristic_1(gboard, me) = NeighbourhoodSum(gboard, me)

C20_Witness ==
  /\ Full(gboard)
  /\ NoLine(gboard)
  /\ outcome = Returned(Draw)
  /\ NeighbourhoodSum(gboard, "X") # 0

\* The player that answered the last request, and the board it was shown.
LastPlayer == players[LastRequest.team]

\* The position in the iteration of the column returned last.
ReturnedAt == CHOOSE i \in 1 .. Len(iterated) : iterated[i] = LastRequest.column

\* The values a minimax player gave the columns of the board it was shown.
LastValues ==
  IF LastPlayer.impl = "Minimax"
  THEN MoveValues(LastPlayer.deepness, gprev, LastRequest.team)
  ELSE CliMoveValues(LastPlayer.deepness, gprev, LastRequest.team)

AskedMinimax ==
  requests # << >> /\ LastPlayer.impl \in {"Minimax", "CliMinimax"}

\* The columns that are not full and complete four in a row for team t.
WinningColumns(b, t) ==
  {c \in Columns : Height(b, c) < H /\ HasLine(put_tile(b, c, t).field, t)}

\* The value of the board after a move at deepness 1: 0 for a board filled
\* to a draw, else the heuristic.
OnePlyValue(b, c, t) ==
  LET after == put_tile(b, c, t).field
  IN IF Full(after) /\ NoLine(after) THEN 0 ELSE heuristic_1(after, t)

\* C17: MinimaxPlayer with deepness 1 returns a column that completes four
\* in a row at once when there is one; when there is none it returns a
\* column that is not full and whose resulting board has the greatest
\* heuristic value, a move that fills the board to a draw counting as 0.
C17_DeepnessOneTakesWinOrBestHeuristic ==
  requests # << >> /\ LastPlayer = MinimaxPlayer(1) =>
    LET c == LastRequest.column
        t == LastRequest.team
        legal == {k \in Columns : Height(gprev, k) < H}
    IN IF WinningColumns(gprev, t) # {}
       THEN c \in WinningColumns(gprev, t)
       ELSE /\ c \in legal
            /\ \A k \in legal : OnePlyValue(gprev, k, t) <= OnePlyValue(gprev, c, t)

C17_Witness ==
  /\ requests # << >>
  /\ LastPlayer = MinimaxPlayer(1)
  /\ Cardinality(WinningColumns(gprev, LastRequest.team)) = 1
  /\ outcome = Returned(Winner(LastRequest.team))

\* C18 as stated: the minimax players return a column of greatest value,
\* and among several of them the one the iteration of possible_moves()
\* hands out first.
C18_FirstSeenWins ==
  AskedMinimax =>
    /\ \A k \in DOMAIN LastValues : LastValues[k] <= LastValues[LastRequest.column]
    /\ \A i \in 1 .. ReturnedAt - 1 :
         LastValues[iterated[i]] < LastValues[LastRequest.column]

\* C18: the minimax players return a column of greatest value, and among
\* several of them the one the iteration of possible_moves() hands out
\* last.
C18_LastSeenWins ==
  AskedMinimax =>
    /\ \A k \in DOMAIN LastValues : LastValues[k] <= LastValues[LastRequest.column]
    /\ \A i \in ReturnedAt + 1 .. Len(iterated) :
         LastValues[iterated[i]] < LastValues[LastRequest.column]

C18_Witness ==
  /\ AskedMinimax
  /\ \E i \in 1 .. ReturnedAt - 1 :
       LastValues[iterated[i]] = LastValues[LastRequest.column]
  /\ iterated # IterationOrder(gprev, Ascending)

\* What the list held for the last request: what the generator yielded,
\* the network predicted, or was typed first.
LastPlanColumn == plan[((Len(requests) - 1) % Len(plan)) + 1]

\* C19: MinimaxPlayer, RandomPlayer, ModelPlayer and IoPlayer return a
\* column of possible_moves() of the board they are shown, so in a game
\* between them put_tile never fails: the game produces no error and no
\* panic, and a winner only by four in a row.
C19_ImplementationsReturnPossibleMoves ==
  requests # << >> =>
    /\ LastRequest.column \in possible_moves(gprev)
    /\ put_tile(gprev, LastRequest.column, LastRequest.team).ret = Ok
    /\ gboard = put_tile(gprev, LastRequest.column, LastRequest.team).field
    /\ outcome.kind \in {"Running", "Returned"}
    /\ outcome.kind = "Returned" /\ outcome.value # Draw =>
         HasLine(gboard, outcome.value.team)

C19_Witness ==
  /\ requests # << >>
  /\ LastPlayer = ModelPlayer
  /\ mode = "run_error_loss"
  /\ LastPlanColumn % W \notin possible_moves(gprev)
  /\ LastRequest.column \in possible_moves(gprev)

\* The score of one occupied cell counted over its neighbours on the board:
\* the cells one column and one row away at most, within both ranges.
OnBoardScore(b, x, y) ==
  LET near == {p \in Columns \X Rows :
                 /\ p # <<x, y>>
                 /\ p[1] - x \in {-1, 0, 1}
                 /\ p[2] - y \in {-1, 0, 1}}
      same == {p \in near : b[p[1] * H + p[2]] = b[x * H + y]}
      empty == {p \in near : b[p[1] * H + p[2]] = "None"}
  IN One * Cardinality(same) + Third * Cardinality(empty)
     - One * Cardinality(near \ (same \cup empty))

RECURSIVE OnBoardSumFrom(_, _, _)
OnBoardSumFrom(b, me, i) ==
  IF i >= W * H
  THEN 0
  ELSE (IF b[i] = "None"
        THEN 0
        ELSE IF b[i] = me
             THEN OnBoardScore(b, i \div H, i % H)
             ELSE 0 - OnBoardScore(b, i \div H, i % H))
       + OnBoardSumFrom(b, me, i + 1)

\* C21: on a board that is not decided, heuristic_1(me) is the sum over the
\* occupied cells of the score of the cell over its neighbours on the board
\* (same owner +1, empty +0.333, other owner -1), added for cells of me and
\* subtracted for cells of the opponent; positions off the board count
\* nothing.
C21_HeuristicCountsOnBoardNeighboursOnly ==
  \A me \in Teams :
    ~Full(gboard) /\ NoLine(gboard) =>
      heuristic_1(gboard, me) = OnBoardSumFrom(gboard, me, 0)

\* C22: in a game (teams in turn from the empty board, one put_tile at a
\* time, over at the first result) no board holds four in a row of both
\* teams, so the team game_result() names does not depend on the order of
\* its scan.
C22_NeverLinesOfBothTeams ==
  /\ ~(HasLine(gboard, "X") /\ HasLine(gboard, "O"))
  /\ \A t \in Teams : HasLine(gboard, t) => game_result(gboard) = Winner(t)

C22_Witness ==
  /\ HasLine(gboard, "O")
  /\ outcome = Returned(Winner("O"))
  /\ deviations = 1

\* The runs of four cells that one team owns.
OwnedLines(b) == {L \in Lines : \E t \in Teams : Owns(b, L, t)}

\* The cell of the tile placed last in column c.
TopCell(b, c) == <<c, TopRow(b, c)>>

\* The directions in which a run of four of one team lies on the board.
LineDirections(b) ==
  {d \in Directions :
     \E L \in OwnedLines(b) : \E p \in L : <<p[1] + d[1], p[2] + d[2]>> \in L}

\* C23 as stated: in a game, after any put_tile at most one four in a row
\* exists on the board, counting one for each of the four directions
\* through the new tile.
C23_AtMostOneLine ==
  Cardinality(LineDirections(gboard)) <= 1

\* C23: in a game, after any put_tile every four in a row on the board is
\* of the team that moved and runs through the new tile; one move may
\* complete several of them, also in several directions.
C23_LinesRunThroughNewTile ==
  requests # << >> /\ gboard # gprev =>
    \A L \in OwnedLines(gboard) :
      /\ TopCell(gboard, LastRequest.column) \in L
      /\ Owns(gboard, L, LastRequest.team)

C23_Witness ==
  /\ requests # << >>
  /\ gboard # gprev
  /\ Cardinality(LineDirections(gboard)) = 2
  /\ outcome = Returned(Winner(LastRequest.team))

\* C30: for every column below the width, on every board put_tile builds,
\* game_result_on_change reads cells of the field only, also when the
\* column is empty and where the neighbour coordinates wrap, and every
\* coordinate off the board reads as an empty cell.
C30_OnChangeReadsStayOnTheBoard ==
  \A c \in Columns :
    /\ OnChangeReads(field, c) \subseteq Cells
    /\ \A p \in {<<c, TileRow(field, c)>>} \cup NeighbourCoordinates(c, TileRow(field, c)) :
         p[1] \notin Columns \/ p[2] \notin Rows =>
           field_get_safe(field, p[1], p[2]) = "None"

C30_Witness ==
  /\ Height(field, 0) = 1
  /\ \E c \in Columns : Height(field, c) = H
  /\ \E c \in Columns : TileRow(field, c) = UsizeRange - 1
  /\ ret = Ok

\* The children simulated by the last search.
Visited == {search.found.visited[i] : i \in DOMAIN search.found.visited}

\* C24: every simulated child is valued by what game_result_on_change says
\* of it (a line of me the maximum, a line of the opponent the minimum, a
\* full board without a line 0), and under such a child nothing is
\* simulated and the heuristic is not called.
C24_TerminalChildrenAreLeaves ==
  \A ch \in Visited :
    LET ended == HasLine(ch.board, "X") \/ HasLine(ch.board, "O") \/ Full(ch.board)
    IN /\ ch.how = "terminal" <=> ended
       /\ HasLine(ch.board, search.me) => ch.value = F64Max
       /\ HasLine(ch.board, other(search.me)) => ch.value = F64Min
       /\ Full(ch.board) /\ NoLine(ch.board) => ch.value = 0
       /\ ended => \A below \in Visited : below.parent # ch.board

C24_Witness ==
  /\ searcher.deepness = MaxDeepness
  /\ \E a, b, c \in Visited :
       /\ a.how = "terminal" /\ a.value = F64Max
       /\ b.how = "terminal" /\ b.value = F64Min /\ b.depth = 2
       /\ c.how = "heuristic" /\ c.depth = 2

\* The number of tiles of team t on b.
TilesOf(b, t) == Cardinality({i \in DOMAIN b : b[i] = t})

\* The most tiles a search of deepness d places on one path.
MostTiles(d) == IF d - 1 > 1 THEN d - 1 ELSE 1

\* C25: a search on a board with a legal move comes to an end with a column;
\* a child at depth d is expanded only when d + 1 is below the deepness and
\* is otherwise given to the heuristic; each child is one tile deeper than
\* the node it was copied from, the tiles on its path are by turns the
\* mover's and the opponent's, and no path holds more than max(1, D - 1).
C25_SearchIsBoundedByDeepness ==
  search.me # "None" =>
    /\ possible_moves(search.root) # {} /\ searcher.heuristic = "heuristic_1"
         => /\ search.found.panic = NoPanic
            /\ search.found.column \in possible_moves(search.root)
    /\ \A ch \in Visited :
         /\ ch.depth \in 1 .. MostTiles(searcher.deepness)
         /\ ch.how = "expanded" => ch.depth + 1 < searcher.deepness
         /\ ch.how = "heuristic" => ~(ch.depth + 1 < searcher.deepness)
         /\ \/ ch.depth = 1 /\ ch.parent = search.root
            \/ \E p \in Visited :
                 p.board = ch.parent /\ p.how = "expanded" /\ p.depth + 1 = ch.depth
         /\ TilesOf(ch.board, search.me)
              = TilesOf(search.root, search.me) + (ch.depth + 1) \div 2
         /\ TilesOf(ch.board, other(search.me))
              = TilesOf(search.root, other(search.me)) + ch.depth \div 2

C25_Witness ==
  /\ searcher.deepness > MaxDeepness + 1
  /\ search.found.panic = NoPanic
  /\ \E ch \in Visited :
       ch.how = "heuristic" /\ ch.depth = searcher.deepness - 1

\* The columns with which team t completes a line on b at once.
WinsAtOnce(b, t) ==
  {c \in possible_moves(b) : HasLine(put_tile(b, c, t).field, t)}

\* c is the one column of b that does not let the opponent of me complete
\* a line with the next move, and me cannot complete one now.
ForcedBlock(b, me, c) ==
  /\ c \in possible_moves(b)
  /\ WinsAtOnce(b, me) = {}
  /\ WinsAtOnce(put_tile(b, c, me).field, other(me)) = {}
  /\ \A k \in possible_moves(b) \ {c} :
       WinsAtOnce(put_tile(b, k, me).field, other(me)) # {}

\* C26 as stated: a search of deepness 3 or more with a heuristic between
\* the sentinels returns the forced block.
C26_ForcedBlockIsReturned ==
  search.me # "None" /\ searcher.deepness >= 3
    /\ searcher.heuristic = "heuristic_1" =>
    \A c \in Columns :
      ForcedBlock(search.root, search.me, c) => search.found.column = c

\* C26, amended: a search of deepness 3 or 4 with a heuristic between the
\* sentinels returns the forced block; a deeper search returns it when the
\* value it found for the block is above the minimum.
C26_ForcedBlockIsReturnedUnlessLost ==
  search.me # "None" /\ searcher.deepness >= 3
    /\ searcher.heuristic = "heuristic_1" =>
    \A c \in Columns :
      ForcedBlock(search.root, search.me, c) =>
        /\ searcher.deepness \in {3, 4} => search.found.column = c
        /\ (\E ch \in Visited :
              /\ ch.depth = 1
              /\ ch.board = put_tile(search.root, c, search.me).field
              /\ ch.value > F64Min) => search.found.column = c
        /\ search.found.column # c => search.found.value = F64Min

C26_Witness ==
  /\ searcher.deepness \in {3, 4}
  /\ search.order = IterationOrder(search.root, Descending)
  /\ ForcedBlock(search.root, search.me, 0)
  /\ search.found.column = 0
  /\ search.found.value > 0

\* C27: a search panics with 'No possible moves' only when make_move is
\* called on a full board; every node whose moves it tries has a possible
\* move, and the loop of the game never asks for a move on a full board.
C27_NoPossibleMovesOnlyOnFullRoot ==
  /\ outcome = Running => possible_moves(gboard) # {}
  /\ search.me # "None" =>
       /\ search.found.panic = NoPossibleMoves <=> possible_moves(search.root) = {}
       /\ \A ch \in Visited :
            ch.how = "expanded" => possible_moves(ch.board) # {}

C27_Witness ==
  /\ search.found.panic = NoPanic
  /\ \E ch, last \in Visited :
       /\ ch.how = "expanded"
       /\ Cardinality(possible_moves(ch.board)) = 1
       /\ last.parent = ch.board
       /\ Full(last.board)

\* The children of the last search that the heuristic valued not-a-number.
NaNLeaves == {ch \in Visited : ch.how = "heuristic" /\ ch.value = NaN}

\* C28 as stated: a search in which the heuristic returned not-a-number
\* for a leaf panics.
C28_NaNIsFatal ==
  NaNLeaves # {} => search.found.panic # NoPanic

\* C28, amended: a search in which the heuristic returned not-a-number for
\* a leaf panics when the board it was called on has more than one
\* possible move; with one possible move nothing is compared and that
\* move is returned.
C28_NaNIsFatalWhenCompared ==
  NaNLeaves # {} =>
    IF Cardinality(possible_moves(search.root)) > 1
    THEN search.found.panic = ComparisonFailed
    ELSE /\ search.found.panic = NoPanic
         /\ possible_moves(search.root) = {search.found.column}

C28_Witness ==
  /\ searcher.heuristic = "sometimes_a_number"
  /\ NaNLeaves # {}
  /\ \E ch \in Visited : ch.how = "heuristic" /\ ch.value # NaN
  /\ search.found.panic = ComparisonFailed

\* The cells in which board c differs from board b.
Changed(b, c) == {i \in DOMAIN b : b[i] # c[i]}

\* C29: make_move leaves the board it was given as it was; every simulated
\* child is a copy of the node it was made from with one tile more, the
\* tile of its own column, so that no child holds a tile of a sibling.
C29_SearchWorksOnCopies ==
  search.me # "None" =>
    /\ search.found.board = search.root
    /\ search.root = gboard
    /\ \A ch \in Visited :
         /\ Cardinality(Changed(ch.parent, ch.board)) = 1
         /\ \A i \in Changed(ch.parent, ch.board) : ch.parent[i] = "None"
         /\ ch.depth = 1 => ch.parent = search.root
         /\ TilesOf(ch.board, "X") + TilesOf(ch.board, "O")
              = TilesOf(search.root, "X") + TilesOf(search.root, "O") + ch.depth

C29_Witness ==
  /\ searcher.deepness = MaxDeepness
  /\ search.found.panic = NoPanic
  /\ search.found.board = gboard
  /\ Cardinality({ch \in Visited : ch.depth = 1}) > 1
  /\ \E ch \in Visited : ch.depth = 2 /\ ch.how = "heuristic"

\* The tiles on the board of the game.
TilesPlaced == TilesOf(gboard, "X") + TilesOf(gboard, "O")

\* C31: run and run_error_loss on a fresh game come to an end, whatever
\* columns the players return: every pass through a half of the loop body
\* answers one more request, while the method runs every request placed a
\* tile and fewer than W * H tiles lie on the board, the tile that fills the
\* board makes the method return a result, and after its end the method
\* asks no more.
C31_RunTerminates ==
  /\ [][Len(requests') = Len(requests) + 1 /\ outcome = Running]_vars
  /\ [](outcome = Running => TilesPlaced = Len(requests) /\ TilesPlaced < W * H)
  /\ [](TilesPlaced = W * H => outcome.kind = "Returned")
  /\ [](Len(requests) <= W * H)

C31_Witness ==
  /\ TilesPlaced = W * H
  /\ Len(requests) = W * H
  /\ outcome = Returned(Draw)

\* C32: when Game::run returns Ok(result), result is game_result() of the
\* board it leaves, every board of the game before had no result, and a
\* Winner is the team that placed the last tile.
C32_RunReturnsTheResultOfTheBoard ==
  mode = "run" =>
    /\ outcome = Running => game_result(gboard) = NoResult
    /\ outcome.kind = "Returned" =>
         /\ outcome.value = game_result(gboard)
         /\ game_result(gprev) = NoResult
         /\ outcome.value # Draw => outcome.value = Winner(LastRequest.team)

C32_Witness ==
  /\ mode = "run"
  /\ outcome = Returned(Winner("X"))
  /\ game_result(gboard) = Winner("X")
  /\ LastRequest.team = "X"
  /\ deviations = 1
  /\ Len(requests) > 2 * 4

\* C33: in run and run_error_loss on a fresh game the team asked for a move
\* is the team whos_turn() names on the board it is shown, and X has as
\* many tiles as O or one more.
C33_TurnsFollowTheBoard ==
  /\ TilesOf(gboard, "X") - TilesOf(gboard, "O") \in {0, 1}
  /\ outcome = Running => whos_turn(gboard) = (IF pc = "x" THEN "X" ELSE "O")
  /\ requests # << >> => whos_turn(gprev) = LastRequest.team

C33_Witness ==
  /\ mode = "run_error_loss"
  /\ outcome = Running
  /\ pc = "o"
  /\ deviations = 1
  /\ TilesOf(gboard, "X") = 4
  /\ TilesOf(gboard, "O") = 3

\* C34: heuristic_1 of a board for X is the negative of heuristic_1 of the
\* same board for O: the two sentinels on a won board, 0 on a drawn one, the
\* two signs of one sum on any other.
C34_HeuristicIsAntisymmetric ==
  heuristic_1(gboard, "X") = 0 - heuristic_1(gboard, "O")

C34_Witness ==
  /\ outcome = Running
  /\ Len(requests) > W
  /\ heuristic_1(gboard, "X") > One
  /\ heuristic_1(gboard, "O") < 0 - One

\* The search of the last searcher with another deepness, all else equal.
SearchWith(d) ==
  Search(Searcher(d, searcher.heuristic), search.root, search.me, search.order)

\* C35: a MinimaxPlayer of deepness 0, 1 or 2 looks at no reply of the
\* opponent: with the same heuristic, board and iteration order the three
\* simulate the same children, one tile deep, value each by the result its
\* own tile brings or else by the heuristic of the board with that tile,
\* and return the same column.
C35_DeepnessBelowThreeIsOnePly ==
  search.me # "None" /\ searcher.deepness <= 2 =>
    /\ \A d \in 0 .. 2 : SearchWith(d) = search.found
    /\ \A ch \in Visited :
         /\ ch.depth = 1
         /\ ch.value = IF game_result(ch.board) # NoResult
                       THEN TerminalValue(game_result(ch.board), search.me)
                       ELSE Heuristic(searcher.heuristic, ch.board, search.me)

C35_Witness ==
  /\ searcher.deepness = 2
  /\ search.found.panic = NoPanic
  /\ Cardinality(Visited) > 1
  /\ SearchWith(0).column = search.found.column
  /\ SearchWith(3).column # search.found.column

\* C36: on a root without a result, with heuristic_1 and the same deepness and
\* iteration order, the MinimaxPlayer of the connect-four crate (full scan
\* on entry of max_value and min_value) and the MinimaxPlayer of the players
\* crate (game_result_on_change after each simulated tile) pair the same
\* value with every column and return the same column.
C36_BothMinimaxPlayersAgree ==
  /\ search.me # "None"
  /\ searcher.heuristic = "heuristic_1"
  /\ game_result(search.root) = NoResult
  => \A values \in {CliMoveValues(searcher.deepness, search.root, search.me)} :
       /\ search.found.panic = NoPanic
       /\ max_by(search.order, values) = search.found.column
       /\ \A c \in possible_moves(search.root) :
            \E ch \in Visited :
              /\ ch.depth = 1
              /\ ch.board = put_tile(search.root, c, search.me).field
              /\ ch.value = values[c]

C36_Witness ==
  /\ searcher.heuristic = "heuristic_1"
  /\ searcher.deepness = MaxDeepness
  /\ game_result(search.root) = NoResult
  /\ \E ch \in Visited : ch.depth = 2 /\ ch.how = "terminal" /\ ch.value = F64Min
  /\ \E ch \in Visited : ch.depth = 1 /\ ch.how = "terminal" /\ ch.value = F64Max
  /\ \E ch \in Visited : ch.how = "heuristic" /\ ch.value \notin {0, F64Max, F64Min}
  /\ cli_make_move(MaxDeepness, search.root, search.me, search.order)
       = search.found.column
  /\ Len(search.order) > 1

\* What the game of matchup m adds to the score of model k when the games
\* are scored one after the other: the winner's model gains 1 and the
\* loser's model loses 1.
Gain(m, k) ==
  IF tasks[m].result.kind # "Winner" THEN 0
  ELSE LET winner == IF tasks[m].result.team = "X" THEN m[1] ELSE m[2]
           loser == IF tasks[m].result.team = "X" THEN m[2] ELSE m[1]
       IN (IF k = winner THEN 1 ELSE 0) - (IF k = loser THEN 1 ELSE 0)

RECURSIVE GainOver(_, _)
GainOver(S, k) ==
  IF S = {} THEN 0
  ELSE LET m == CHOOSE x \in S : TRUE
       IN Gain(m, k) + GainOver(S \ {m}, k)

\* The scores after the games of the matchups in S, scored one after the
\* other.
Sequential(S) == [k \in 0 .. models - 1 |-> GainOver(S, k)]

RECURSIVE SumBelow(_, _)
SumBelow(v, n) == IF n = 0 THEN 0 ELSE v[n - 1] + SumBelow(v, n - 1)

\* The matchups whose update is complete, and those in the middle of it.
Updated == {m \in Matchups : tasks[m].at \in {"unlock", "done"}}
Updating ==
  {m \in Matchups : tasks[m].at \in {"load_i", "store_i", "load_j", "store_j"}}

\* C37: league_scores touches the score vector only under the mutex: a
\* closure that reads or writes it holds the lock; whenever no update is
\* under way the vector is the sequential result of the games whose update
\* is complete (no update lost) and its sum is 0; and the vector returned is
\* the sequential result of all matchups.
C37_LeagueScoresAreSequential ==
  /\ \A m \in Matchups : tasks[m].at \notin {"queued", "lock", "done"} => guard = m
  /\ Updating = {} =>
       /\ scores = Sequential(Updated)
       /\ SumBelow(scores, models) = 0
  /\ returned # NotReturned =>
       /\ Updated = Matchups
       /\ returned = Sequential(Matchups)
       /\ SumBelow(returned, models) = 0

C37_Witness ==
  /\ models = 2
  /\ returned # NotReturned
  /\ returned[0] = 2
  /\ returned[1] = 0 - 2
  /\ tasks[<<0, 0>>].result = Winner("O")
  /\ tasks[<<1, 1>>].result = Draw

\* The models of the last train_step with their scores, those of them that
\* the population holds, and the score of a model.
Generation == {evaluated[k] : k \in DOMAIN evaluated}
Selected ==
  {e \in Generation :
     \E k \in DOMAIN trainer.population : trainer.population[k] = e.model}
ScoreOf(m) == (CHOOSE e \in Generation : e.model = m).score

\* The population holds exactly population_min models of the generation,
\* none twice, none with a smaller score than a model left out, in
\* descending order of score.
HoldsTheBest ==
  /\ Len(trainer.population) = trainer.population_min
  /\ \A j, k \in DOMAIN trainer.population :
       j # k => trainer.population[j] # trainer.population[k]
  /\ \A k \in DOMAIN trainer.population :
       \E e \in Generation : e.model = trainer.population[k]
  /\ \A e \in Generation \ Selected : \A s \in Selected :
       partial_cmp(e.score, s.score) # "Greater"
  /\ \A k \in 1 .. Len(trainer.population) - 1 :
       partial_cmp(ScoreOf(trainer.population[k + 1]),
                   ScoreOf(trainer.population[k])) # "Greater"

\* population()[0] is a model that no model of the generation outscores.
FirstIsBest ==
  /\ trainer.population # << >>
  /\ \A e \in Generation :
       partial_cmp(e.score, ScoreOf(trainer.population[1])) # "Greater"

\* train_step has just returned, on a trainer with
\* population_max >= population_min.
Stepped ==
  evo.at = "test" /\ trainer.population_max >= trainer.population_min

\* C38 as stated: after every train_step the population holds exactly
\* population_min models, the highest-scoring ones of the evaluated
\* generation in descending order of score, and population()[0] is a
\* best-scoring model.
C38_PopulationHoldsTheBestAndFirstIsBest ==
  Stepped => HoldsTheBest /\ FirstIsBest

\* C38: after every train_step the population holds exactly population_min
\* models, the highest-scoring ones of the evaluated generation in
\* descending order of score, and with population_min >= 1 population()[0]
\* is a best-scoring model.
C38_PopulationHoldsTheBest ==
  Stepped => HoldsTheBest /\ (trainer.population_min >= 1 => FirstIsBest)

C38_Witness ==
  /\ Stepped
  /\ evo.i = 1
  /\ trainer.population_min = 2
  /\ Len(evaluated) = 3
  /\ evaluated[1].score = 0
  /\ ScoreOf(trainer.population[1]) = 2
  /\ ScoreOf(trainer.population[2]) = 1
  /\ evo.first = evaluated[1].model
====
